---- MODULE Spec2Model ----
(***************************************************************************)
(* A model of the oddish three-stage pipeline engine: the Postgres-backed  *)
(* job queue, the trial / analysis / verdict handlers, the two fan-in      *)
(* transitions, the explicit retry and the deletion endpoints.             *)
(*                                                                         *)
(* Every action is one database transaction of the source (a session that  *)
(* commits), so the interleavings of the model are the interleavings of    *)
(* committed transactions of concurrent one-shot workers.                  *)
(***************************************************************************)
EXTENDS Integers, Sequences, FiniteSets, TLC

(* ------------------------------ bounds -------------------------------- *)
NumTrials == 2        \* trials of the task
MaxAttempts == 2      \* trials.max_attempts of every trial row
MaxFaults == 2        \* disturbances over a run: sandbox runs that end without a
                      \* reward, worker crashes, explicit retries, deletions

NumWorkers == 3       \* one-shot workers spawned on the queue key
MaxSlots == 3         \* queue_slots rows a key may have (left by an earlier limit)
MaxLimit == 2         \* largest concurrency limit of the key
MaxJobs == 2          \* queued jobs on the key
LeaseTicks == 2       \* lease_seconds, in clock ticks
MaxTime == 3          \* clock ticks over a run
MaxWorkerCrash == 1   \* workers killed while holding a lease
MaxCalls == 3         \* successive applications of normalize_queue_key
MaxKeyJobs == 2       \* queue rows in the model of the dispatcher's keys
NumWriters == 2       \* concurrent transactions on the task row
MaxPayloadJobs == 2   \* queue rows handed to the job dispatch
NumPlanKeys == 2      \* queue keys of a dispatcher poll
MaxQueued == 2        \* queued jobs of a key at a poll
MaxPlanLimit == 2     \* largest concurrency limit of a key at a poll
MaxSpawn == 2         \* largest per-cycle spawn cap (MAX_WORKERS_PER_POLL)

None == "none"        \* SQL NULL / Python None
TrialIds == 1..NumTrials

VARIABLES
  task,        \* the tasks row: exists, status, run_analysis, verdict_status,
               \* finished_at and verdict_error (set or NULL)
  trials,      \* the trials rows of the task
  jobs,        \* the pgqueuer table, with the state of the worker holding each picked row
               \* and whether the row's last handler raised for a retry
  uploads,     \* artifact store: whether tasks/{task}/trials/{trial}/ holds objects
  verdictEnq,  \* history: verdict jobs enqueued so far
  starts,      \* history: calls of maybe_start_analysis_stage that returned true
  reverts,     \* history: explicit retries that reverted the task to running
  faults,      \* history: disturbances so far
  delPhase     \* deletion endpoint: "none", "cancelled" (queued jobs cancelled),
               \* "lookup_failed" (the cancellation returned 0), "deleted"

pvars == <<task, trials, jobs, uploads, verdictEnq, starts, reverts, faults, delPhase>>

VARIABLES
  queue_slots, \* the queue_slots rows of one queue key: slot -> row
  limit,       \* get_model_concurrency(queue_key)
  pgq,         \* the queue's rows on the key, as the claim sees them
  wk,          \* the one-shot workers: position in process_single_job, slot, job
  now,         \* the database clock
  wcrashes     \* history: workers killed so far

svars == <<queue_slots, limit, pgq, wk, now, wcrashes>>

VARIABLES
  kin,         \* a string handed to normalize_queue_key
  kstr,        \* the result of the last application
  kprev,       \* the string the last application was given
  kcalls,      \* applications so far
  kq,          \* queue rows with their entrypoint, for the dispatcher's key handling
  kkeys,       \* the queue keys of the dispatcher's last poll
  kplan        \* the keys of the workers spawned and not yet started

kvars == <<kin, kstr, kprev, kcalls, kq, kkeys, kplan>>

VARIABLES
  txn,         \* the transactions on the task row: position, operation, the row as read
  tasklock     \* the transaction holding the task row's FOR UPDATE lock, 0 when free

lvars == <<txn, tasklock>>

VARIABLES
  dq           \* queue rows with any payload, as the workers' job dispatch sees them

dvars == <<dq>>

VARIABLES
  queue_counts,        \* the dispatcher's counts: key -> queued and picked jobs
  concurrency_limits,  \* key -> get_model_concurrency(key)
  max_workers,         \* the per-cycle spawn cap
  spawn_plan,          \* the keys of the workers spawned and not yet started
  polled               \* flips at every dispatcher cycle

nvars == <<queue_counts, concurrency_limits, max_workers, spawn_plan, polled>>
vars == <<pvars, svars, kvars, lvars, dvars, nvars>>

(* ------------------------------ queue keys ----------------------------- *)
\* Strings are sequences of characters, so that strip, lower, replace and split act
\* on them as str.strip, str.lower, str.replace and str.split do.
\* Python None where a string is expected: no string of characters equals it.
NoneStr == <<"none">>
Whitespace == {" ", "\t"}
UpperChars == <<"A", "B", "C", "D", "E", "F", "G", "H", "I", "K", "L", "M", "N", "O", "P", "R", "S", "T", "U", "V", "X", "Y">>
LowerChars == <<"a", "b", "c", "d", "e", "f", "g", "h", "i", "k", "l", "m", "n", "o", "p", "r", "s", "t", "u", "v", "x", "y">>

lower_char(c) ==
  IF \E i \in DOMAIN UpperChars : UpperChars[i] = c
    THEN LowerChars[CHOOSE i \in DOMAIN UpperChars : UpperChars[i] = c]
    ELSE c
upper_char(c) ==
  IF \E i \in DOMAIN LowerChars : LowerChars[i] = c
    THEN UpperChars[CHOOSE i \in DOMAIN LowerChars : LowerChars[i] = c]
    ELSE c
lower(s) == [i \in 1..Len(s) |-> lower_char(s[i])]
upper(s) == [i \in 1..Len(s) |-> upper_char(s[i])]

RECURSIVE lstrip(_)
lstrip(s) == IF s # <<>> /\ Head(s) \in Whitespace THEN lstrip(Tail(s)) ELSE s
RECURSIVE rstrip(_)
rstrip(s) ==
  IF s # <<>> /\ s[Len(s)] \in Whitespace THEN rstrip(SubSeq(s, 1, Len(s) - 1)) ELSE s
strip(s) == rstrip(lstrip(s))

\* str.replace(" ", "_")
replace_space(s) == [i \in 1..Len(s) |-> IF s[i] = " " THEN "_" ELSE s[i]]

HasSlash(s) == \E i \in 1..Len(s) : s[i] = "/"
FirstSlash(s) == CHOOSE i \in 1..Len(s) : s[i] = "/" /\ \A k \in 1..(i - 1) : s[k] # "/"
\* s.split("/", 1)
BeforeSlash(s) == SubSeq(s, 1, FirstSlash(s) - 1)
AfterSlash(s) == SubSeq(s, FirstSlash(s) + 1, Len(s))
startswith(s, p) == Len(s) >= Len(p) /\ SubSeq(s, 1, Len(p)) = p

W_default == <<"d", "e", "f", "a", "u", "l", "t">>
W_openai == <<"o", "p", "e", "n", "a", "i">>
W_anthropic == <<"a", "n", "t", "h", "r", "o", "p", "i", "c">>
W_claude == <<"c", "l", "a", "u", "d", "e">>
W_google == <<"g", "o", "o", "g", "l", "e">>
W_gemini == <<"g", "e", "m", "i", "n", "i">>
W_vertex_ai == <<"v", "e", "r", "t", "e", "x", "_", "a", "i">>
W_gpt4 == <<"g", "p", "t", "-", "4">>
W_gemini_pro == <<"g", "e", "m", "i", "n", "i", "-", "p", "r", "o">>
analysis_model == <<"c", "l", "a", "u", "d", "e", "-", "h", "a", "i", "k", "u", "-", "4", "-", "5">>
verdict_model == <<"g", "p", "t", "-", "5", ".", "2">>

_MODEL_ABSENT_ALIASES ==
  {<<>>, <<"-">>, <<"n", "o", "n", "e">>, <<"n", "u", "l", "l">>, <<"n", "i", "l">>, <<"n", "/", "a">>, <<"n", "a">>, W_default}
_PROVIDER_ONLY_QUEUE_ALIASES ==
  {W_openai, W_anthropic, W_claude, W_google, W_gemini, W_default}

\* litellm's get_llm_provider on a bare model name: the provider of a model it
\* knows; NoneStr where it raises.
get_llm_provider(name) ==
  CASE name = W_gpt4 -> W_openai
    [] name = W_gemini_pro -> W_vertex_ai
    [] OTHER -> NoneStr

\* harbor's split_provider_model_name: the prefix before the first "/", if any.
split_provider_model_name(name) == IF HasSlash(name) THEN BeforeSlash(name) ELSE NoneStr

_infer_provider_prefix(model_name) ==
  LET provider_prefix == split_provider_model_name(model_name)
      llm_provider == get_llm_provider(model_name)
      lowered == lower(strip(model_name))
  IN IF provider_prefix # NoneStr /\ provider_prefix # <<>>
       THEN (IF lower(strip(provider_prefix)) = <<>> THEN NoneStr
             ELSE lower(strip(provider_prefix)))
     ELSE IF llm_provider # NoneStr
       THEN (IF lower(strip(llm_provider)) = <<>> THEN NoneStr
             ELSE lower(strip(llm_provider)))
     ELSE IF \E p \in {<<"g", "p", "t", "-">>, <<"o", "1">>, <<"o", "3">>, <<"o", "4">>, <<"c", "h", "a", "t", "g", "p", "t", "-">>, <<"t", "e", "x", "t", "-", "e", "m", "b", "e", "d", "d", "i", "n", "g", "-">>} :
               startswith(lowered, p)
       THEN W_openai
     ELSE IF startswith(lowered, W_claude) THEN W_anthropic
     ELSE IF startswith(lowered, W_gemini) THEN W_google
     ELSE NoneStr

\* normalize_queue_key without the early return for keys that already carry a "/".
normalize_queue_key_no_slash_return(model) ==
  LET normalized == replace_space(lower(strip(model)))
  IN IF normalized = <<>> \/ normalized \in _MODEL_ABSENT_ALIASES THEN W_default
     ELSE IF normalized \in _PROVIDER_ONLY_QUEUE_ALIASES THEN W_default
     ELSE IF HasSlash(normalized)
               /\ BeforeSlash(normalized) \in _PROVIDER_ONLY_QUEUE_ALIASES
               /\ AfterSlash(normalized) \in _PROVIDER_ONLY_QUEUE_ALIASES
       THEN W_default
     ELSE IF _infer_provider_prefix(normalized) = NoneStr THEN normalized
     ELSE _infer_provider_prefix(normalized) \o <<"/">> \o normalized

\* normalize_queue_key without the provider inference for bare model names.
normalize_queue_key_no_inference(model) ==
  LET normalized == replace_space(lower(strip(model)))
  IN IF normalized = <<>> \/ normalized \in _MODEL_ABSENT_ALIASES THEN W_default
     ELSE IF normalized \in _PROVIDER_ONLY_QUEUE_ALIASES THEN W_default
     ELSE IF HasSlash(normalized)
       THEN (IF BeforeSlash(normalized) \in _PROVIDER_ONLY_QUEUE_ALIASES
                  /\ AfterSlash(normalized) \in _PROVIDER_ONLY_QUEUE_ALIASES
               THEN W_default ELSE normalized)
     ELSE normalized

normalize_queue_key(model) ==
  LET normalized == replace_space(lower(strip(model)))
  IN IF normalized = <<>> \/ normalized \in _MODEL_ABSENT_ALIASES THEN W_default
     ELSE IF normalized \in _PROVIDER_ONLY_QUEUE_ALIASES THEN W_default
     ELSE IF HasSlash(normalized)
       THEN (IF BeforeSlash(normalized) \in _PROVIDER_ONLY_QUEUE_ALIASES
                  /\ AfterSlash(normalized) \in _PROVIDER_ONLY_QUEUE_ALIASES
               THEN W_default ELSE normalized)
     ELSE IF _infer_provider_prefix(normalized) = NoneStr THEN normalized
     ELSE _infer_provider_prefix(normalized) \o <<"/">> \o normalized

\* The strings the keys are computed from: the aliases of an absent model, bare
\* provider names, bare model names (known to litellm, matched by the prefix
\* heuristics, unknown), prefixed names, names with inner blanks or tabs...
KeyWords ==
  _MODEL_ABSENT_ALIASES \cup _PROVIDER_ONLY_QUEUE_ALIASES \cup
  {W_gpt4, W_gemini_pro, analysis_model, verdict_model, <<"o", "1">>, <<"f", "o", "o">>, <<"m", "y", " ", "m", "o", "d", "e", "l">>,
   <<"a", "\t", "b">>, <<"o", "p", "e", "n", "a", "i", "/", "g", "p", "t", "-", "4">>, <<"o", "p", "e", "n", "a", "i", "/", "c", "l", "a", "u", "d", "e">>, <<"c", "l", "a", "u", "d", "e", "/", "d", "e", "f", "a", "u", "l", "t">>, <<"o", "p", "e", "n", "a", "i", "/", "n", "o", "n", "e">>,
   <<"f", "o", "o", "/", "b", "a", "r">>, <<"f", "o", "o", "/", "m", "y", " ", "m", "o", "d", "e", "l">>, <<"/", "g", "p", "t", "-", "4">>, <<"g", "p", "t", "-", "4", "/">>, <<"a", "/", "b", "/", "c">>, <<"o", "p", "e", "n", " ", "a", "i", "/", "g", "p", "t", "-", "4">>}

\* ... each as written, in upper case, and padded with blanks and tabs.
KeyInputs ==
  UNION {{w, upper(w), <<" ">> \o w, w \o <<" ", "\t">>, <<"\t">> \o upper(w) \o <<" ">>} :
           w \in KeyWords}


\* normalize_trial_model for an agent other than nop and oracle.
normalize_trial_model(model) ==
  IF lower(strip(model)) \in _MODEL_ABSENT_ALIASES THEN NoneStr ELSE strip(model)

get_queue_key_for_trial(model) ==
  IF normalize_trial_model(model) \in {NoneStr, <<>>} THEN W_default
  ELSE normalize_queue_key(normalize_trial_model(model))

get_analysis_queue_key == normalize_queue_key(analysis_model)
get_verdict_queue_key == normalize_queue_key(verdict_model)

default_model_concurrency == 8
\* No per-key override is configured.
model_concurrency_overrides == {}
get_model_concurrency(queue_key) == default_model_concurrency
get_known_queue_keys ==
  {get_analysis_queue_key, get_verdict_queue_key} \cup model_concurrency_overrides

(* ------------------------------ rows ---------------------------------- *)
Terminal == {"success", "failed"}

NewTrial ==
  [exists |-> TRUE, status |-> "queued", attempts |-> 0, max_attempts |-> MaxAttempts,
   idempotency_key |-> None, reward |-> None, error_message |-> FALSE,
   harbor_stage |-> None, trial_s3_key |-> FALSE, analysis_status |-> None,
   analysis_error |-> FALSE]

DeletedTrial ==
  [exists |-> FALSE, status |-> None, attempts |-> 0, max_attempts |-> MaxAttempts,
   idempotency_key |-> None, reward |-> None, error_message |-> FALSE,
   harbor_stage |-> None, trial_s3_key |-> FALSE, analysis_status |-> None,
   analysis_error |-> FALSE]

\* The queue key of the task's trials (all trials run the same model).
TrialQueueKey == get_queue_key_for_trial(W_gpt4)

\* _enqueue_job: one more row, in status queued.  Rows are named by job type,
\* referenced row and serial number among the jobs of that type and row.
QueuedJob(job_type, ref, entrypoint) ==
  [job_type |-> job_type, ref |-> ref, entrypoint |-> entrypoint,
   status |-> "queued", pc |-> None, out |-> None, dead |-> FALSE, raised |-> FALSE]

_enqueue_job(q, job_type, ref, entrypoint) ==
  LET n == Cardinality({k \in DOMAIN q : k[1] = job_type /\ k[2] = ref})
      id == <<job_type, ref, n + 1>>
  IN [k \in DOMAIN q \cup {id} |->
        IF k = id THEN QueuedJob(job_type, ref, entrypoint) ELSE q[k]]

enqueue_trial(q, trial_id) == _enqueue_job(q, "trial", trial_id, TrialQueueKey)
\* An enqueue that is not part of the session's transaction: the commit adds no row.
enqueue_analysis_outside_session(q, trial_id) == q
enqueue_analysis(q, trial_id) == _enqueue_job(q, "analysis", trial_id, get_analysis_queue_key)
enqueue_verdict(q) == _enqueue_job(q, "verdict", 0, get_verdict_queue_key)

JobIds == DOMAIN jobs
Holds(j, pc) == jobs[j].status = "picked" /\ ~jobs[j].dead /\ jobs[j].pc = pc
\* A worker claims queued row j and its handler starts.
Claims(j, job_type) == jobs[j].status = "queued" /\ jobs[j].job_type = job_type

\* The queue row after the handler returned (success) or raised (failed).  The field
\* raised records that the trial handler raised for a retry (see Raise).
Settle(q, j, status) ==
  [q EXCEPT ![j].status = status, ![j].pc = None, ![j].out = None, ![j].raised = FALSE]
\* The queue row after the final session raised "Trial failed, retrying".
Raise(q, j) == [Settle(q, j, "failed") EXCEPT ![j].raised = TRUE]
\* The queue row after a handler found its work already done and returned: the row
\* ends in success and out keeps the handler's "skipping" log line.
Skip(q, j) == [Settle(q, j, "success") EXCEPT ![j].out = "skipped"]
\* The queue row once the handler's last session has committed: the handler returns
\* and the row ends in success, or (dies) the worker dies before the queue marks the
\* row, which stays picked until it is handed out again.
AfterCommit(q, j, dies) ==
  IF dies THEN [q EXCEPT ![j].dead = TRUE, ![j].pc = "done"] ELSE Settle(q, j, "success")
\* The queue row while its handler runs.
Picked(q, j, pc, out) ==
  [q EXCEPT ![j].status = "picked", ![j].pc = pc, ![j].out = out]

(* -------------------------- fan-in transitions ------------------------ *)
PendingTrialCount(trs) ==
  Cardinality({t \in TrialIds : trs[t].exists
                 /\ trs[t].status \in {"pending", "queued", "running", "retrying"}})

\* maybe_start_analysis_stage counts NULL analysis_status as unfinished.
AnalysisUnfinishedCount(trs) ==
  Cardinality({t \in TrialIds : trs[t].exists
                 /\ trs[t].analysis_status \in {None, "pending", "queued", "running"}})

\* maybe_start_verdict_stage counts only pending / queued / running.
AnalysisPendingCount(trs) ==
  Cardinality({t \in TrialIds : trs[t].exists
                 /\ trs[t].analysis_status \in {"pending", "queued", "running"}})

\* maybe_start_analysis_stage without the check that the task is still pending or
\* running.
maybe_start_analysis_stage_no_status_check(tk, trs) ==
  IF ~tk.exists THEN [started |-> FALSE, task |-> tk, verdict |-> FALSE]
  ELSE IF PendingTrialCount(trs) > 0
    THEN [started |-> FALSE, task |-> tk, verdict |-> FALSE]
  ELSE IF tk.run_analysis
    THEN IF AnalysisUnfinishedCount(trs) = 0
           THEN [started |-> TRUE,
                 task |-> [tk EXCEPT !.status = "verdict_pending", !.verdict_status = "queued"],
                 verdict |-> TRUE]
           ELSE [started |-> TRUE, task |-> [tk EXCEPT !.status = "analyzing"],
                 verdict |-> FALSE]
  ELSE [started |-> TRUE,
        task |-> [tk EXCEPT !.status = "completed", !.finished_at = TRUE],
        verdict |-> FALSE]

\* maybe_start_analysis_stage without the branch for analyses that all finished
\* before the call.
maybe_start_analysis_stage_always_analyzing(tk, trs) ==
  IF ~tk.exists THEN [started |-> FALSE, task |-> tk, verdict |-> FALSE]
  ELSE IF tk.status \notin {"pending", "running"}
    THEN [started |-> FALSE, task |-> tk, verdict |-> FALSE]
  ELSE IF PendingTrialCount(trs) > 0
    THEN [started |-> FALSE, task |-> tk, verdict |-> FALSE]
  ELSE IF tk.run_analysis
    THEN [started |-> TRUE, task |-> [tk EXCEPT !.status = "analyzing"],
          verdict |-> FALSE]
  ELSE [started |-> TRUE,
        task |-> [tk EXCEPT !.status = "completed", !.finished_at = TRUE],
        verdict |-> FALSE]

\* The result of maybe_start_analysis_stage on the rows (tk, trs): whether the
\* task transitioned, the task row, and whether a verdict job is enqueued.
maybe_start_analysis_stage(tk, trs) ==
  IF ~tk.exists THEN [started |-> FALSE, task |-> tk, verdict |-> FALSE]
  ELSE IF tk.status \notin {"pending", "running"}
    THEN [started |-> FALSE, task |-> tk, verdict |-> FALSE]
  ELSE IF PendingTrialCount(trs) > 0
    THEN [started |-> FALSE, task |-> tk, verdict |-> FALSE]
  ELSE IF tk.run_analysis
    THEN IF AnalysisUnfinishedCount(trs) = 0
           THEN [started |-> TRUE,
                 task |-> [tk EXCEPT !.status = "verdict_pending", !.verdict_status = "queued"],
                 verdict |-> TRUE]
           ELSE [started |-> TRUE, task |-> [tk EXCEPT !.status = "analyzing"],
                 verdict |-> FALSE]
  ELSE [started |-> TRUE,
        task |-> [tk EXCEPT !.status = "completed", !.finished_at = TRUE],
        verdict |-> FALSE]

maybe_start_verdict_stage_unguarded(tk, trs) ==
  IF ~tk.exists THEN [started |-> FALSE, task |-> tk, verdict |-> FALSE]
  ELSE IF AnalysisPendingCount(trs) > 0
    THEN [started |-> FALSE, task |-> tk, verdict |-> FALSE]
  ELSE [started |-> TRUE,
        task |-> [tk EXCEPT !.status = "verdict_pending", !.verdict_status = "queued"],
        verdict |-> TRUE]

maybe_start_verdict_stage(tk, trs) ==
  IF ~tk.exists THEN [started |-> FALSE, task |-> tk, verdict |-> FALSE]
  ELSE IF tk.status # "analyzing"
    THEN [started |-> FALSE, task |-> tk, verdict |-> FALSE]
  ELSE IF AnalysisPendingCount(trs) > 0
    THEN [started |-> FALSE, task |-> tk, verdict |-> FALSE]
  ELSE [started |-> TRUE,
        task |-> [tk EXCEPT !.status = "verdict_pending", !.verdict_status = "queued"],
        verdict |-> TRUE]

(* ------------------------------ queue --------------------------------- *)
\* The worker holding a picked row dies; the row stays picked.
Crash(j) ==
  /\ jobs[j].status = "picked" /\ ~jobs[j].dead
  /\ faults < MaxFaults
  /\ faults' = faults + 1
  /\ jobs' = [jobs EXCEPT ![j].dead = TRUE]
  /\ UNCHANGED <<task, trials, uploads, verdictEnq, starts, reverts, delPhase>>

\* After the retry timer the queue hands out again a row whose handler raised, or a
\* picked row whose worker died.
Redeliver(j) ==
  /\ \/ jobs[j].status = "failed"
     \/ jobs[j].status = "picked" /\ jobs[j].dead
  /\ jobs' = [jobs EXCEPT ![j].status = "queued", ![j].pc = None, ![j].out = None,
                          ![j].dead = FALSE]
  /\ UNCHANGED <<task, trials, uploads, verdictEnq, starts, reverts, faults, delPhase>>

(* --------------------------- trial handler ---------------------------- *)
\* The idempotency check: key set and status success or failed.
AlreadyProcessed_success_only(tr) == tr.idempotency_key # None /\ tr.status = "success"
AlreadyProcessed(tr) == tr.idempotency_key # None /\ tr.status \in Terminal

\* First session of run_trial_job: the idempotency check.
TrialCheck(j) ==
  /\ Claims(j, "trial")
  /\ LET tr == trials[jobs[j].ref] IN
       jobs' = IF ~tr.exists THEN Settle(jobs, j, "failed")
               ELSE IF AlreadyProcessed(tr) THEN Settle(jobs, j, "success")
               ELSE Picked(jobs, j, "mark", None)
  /\ UNCHANGED <<task, trials, uploads, verdictEnq, starts, reverts, faults, delPhase>>

\* Second session: mark running, count the attempt, set the key, start the task.
\* uuid.uuid4(): a value no earlier call gave, named here by the serial number of
\* the calling job and the attempt the call belongs to.
uuid4(j, tr) == "uuid-" \o ToString(j[3]) \o "-" \o ToString(tr.attempts + 1)

\* Mark-running that draws a new key on every attempt.
MarkRunning_new_key(j, tr) ==
  [tr EXCEPT !.status = "running", !.harbor_stage = "starting",
             !.attempts = tr.attempts + 1,
             !.idempotency_key = uuid4(j, tr)]

MarkRunning(j, tr) ==
  [tr EXCEPT !.status = "running", !.harbor_stage = "starting",
             !.attempts = tr.attempts + 1,
             !.idempotency_key = IF tr.idempotency_key = None THEN uuid4(j, tr)
                                 ELSE tr.idempotency_key]

\* The task leaves pending when its first trial starts.
StartTask_always(tk) == IF tk.exists THEN [tk EXCEPT !.status = "running"] ELSE tk
StartTask(tk) ==
  IF tk.exists /\ tk.status = "pending" THEN [tk EXCEPT !.status = "running"] ELSE tk

TrialMark(j) ==
  /\ Holds(j, "mark")
  /\ LET t == jobs[j].ref IN
       IF ~trials[t].exists
         THEN /\ jobs' = Settle(jobs, j, "failed")
              /\ UNCHANGED <<task, trials>>
         ELSE /\ trials' = [trials EXCEPT ![t] = MarkRunning(j, trials[t])]
              /\ task' = StartTask(task)
              /\ jobs' = [jobs EXCEPT ![j].pc = "run"]
  /\ UNCHANGED <<uploads, verdictEnq, starts, reverts, faults, delPhase>>

\* What the sandbox run ends with: the END hook's result (a reward, an error, an
\* agent timeout after which the verifier ran, or neither reward nor error), or a
\* CANCEL hook followed by the runner's error outcome or by a CancelledError in
\* the handler.
HookEvents == {"reward", "error", "timeout", "neither", "cancel_err", "cancel_exc"}

\* on_harbor_event for END and CANCEL.
\* on_harbor_event whose END branch sets no status for an error.
on_harbor_event_reward_only(tr, ev) ==
  CASE ev = "reward" ->
         [tr EXCEPT !.harbor_stage = "completed", !.status = "success", !.reward = "1"]
    [] ev = "timeout" ->
         [tr EXCEPT !.harbor_stage = "completed", !.error_message = TRUE,
                    !.status = "success", !.reward = "0"]
    [] ev = "error" -> [tr EXCEPT !.harbor_stage = "completed", !.error_message = TRUE]
    [] ev = "neither" -> [tr EXCEPT !.harbor_stage = "completed"]
    [] OTHER ->
         [tr EXCEPT !.harbor_stage = "cancelled", !.status = "failed",
                    !.error_message = TRUE]

on_harbor_event(tr, ev) ==
  CASE ev = "reward" ->
         [tr EXCEPT !.harbor_stage = "completed", !.status = "success", !.reward = "1"]
    [] ev = "timeout" ->
         [tr EXCEPT !.harbor_stage = "completed", !.error_message = TRUE,
                    !.status = "success", !.reward = "0"]
    [] ev = "error" ->
         [tr EXCEPT !.harbor_stage = "completed", !.error_message = TRUE,
                    !.status = "failed"]
    [] ev = "neither" -> [tr EXCEPT !.harbor_stage = "completed"]
    [] OTHER ->
         [tr EXCEPT !.harbor_stage = "cancelled", !.status = "failed",
                    !.error_message = TRUE]

Hook(j, ev) ==
  /\ Holds(j, "run")
  /\ faults' = IF ev = "reward" THEN faults ELSE faults + 1
  /\ faults' <= MaxFaults
  /\ LET t == jobs[j].ref IN
       trials' = IF trials[t].exists
                   THEN [trials EXCEPT ![t] = on_harbor_event(trials[t], ev)]
                   ELSE trials
  /\ jobs' = [jobs EXCEPT ![j].pc = "returned", ![j].out = ev]
  /\ UNCHANGED <<task, uploads, verdictEnq, starts, reverts, delPhase>>

\* The runner call raises before any hook fired: outcome = None.
RunnerRaises(j) ==
  /\ Holds(j, "run")
  /\ faults < MaxFaults
  /\ faults' = faults + 1
  /\ jobs' = [jobs EXCEPT ![j].pc = "returned", ![j].out = "exception"]
  /\ UNCHANGED <<task, trials, uploads, verdictEnq, starts, reverts, delPhase>>

HasOutcome(out) == out \in {"reward", "error", "timeout", "neither", "cancel_err"}
\* derived_reward without the agent-timeout rule.
derived_reward_reward_only(out) == IF out = "reward" THEN "1" ELSE None
derived_reward(out) ==
  CASE out = "reward" -> "1" [] out = "timeout" -> "0" [] OTHER -> None
OutcomeError(out) == out \in {"error", "timeout", "cancel_err"}

\* The retry branch of the final session: no reward and attempts remain.
TakesRetryBranch(tr, out) ==
  HasOutcome(out) /\ derived_reward(out) = None /\ tr.attempts < tr.max_attempts

\* The trial row the final session writes (when it does not raise).
Terminalize(tr, out) ==
  IF HasOutcome(out)
    THEN [tr EXCEPT
            !.reward = derived_reward(out),
            !.error_message = IF OutcomeError(out) THEN TRUE
                              ELSE IF derived_reward(out) # None THEN FALSE
                              ELSE tr.error_message,
            !.trial_s3_key = TRUE,
            !.status = IF derived_reward(out) # None THEN "success" ELSE "failed"]
    ELSE [tr EXCEPT !.status = "failed", !.error_message = TRUE]

\* The artifact upload and the final session of run_trial_job, with the downstream
\* enqueue and maybe_start_analysis_stage in the same transaction.
TrialFinal(j) ==
  /\ Holds(j, "returned")
  /\ LET t == jobs[j].ref
         out == jobs[j].out
         tr == trials[t]
         up == IF HasOutcome(out) THEN [uploads EXCEPT ![t] = TRUE] ELSE uploads
     IN
       /\ uploads' = up
       /\ IF ~tr.exists
            THEN /\ jobs' = Settle(jobs, j, "success")
                 /\ UNCHANGED <<task, trials, verdictEnq, starts>>
          ELSE IF TakesRetryBranch(tr, out)
            THEN \* raise inside the session: rolled back, the queue row fails
                 /\ jobs' = Raise(jobs, j)
                 /\ UNCHANGED <<task, trials, verdictEnq, starts>>
          ELSE
            LET tr1 == Terminalize(tr, out)
                wantsAnalysis == task.exists /\ task.run_analysis
                                   /\ tr1.analysis_status = None
                tr2 == IF wantsAnalysis THEN [tr1 EXCEPT !.analysis_status = "queued"]
                       ELSE tr1
                trs == [trials EXCEPT ![t] = tr2]
                q1 == IF wantsAnalysis THEN enqueue_analysis(jobs, t) ELSE jobs
                r == maybe_start_analysis_stage(task, trs)
                q2 == IF r.verdict THEN enqueue_verdict(q1) ELSE q1
            IN /\ trials' = trs
               /\ task' = r.task
               /\ jobs' = Settle(q2, j, "success")
               /\ verdictEnq' = IF r.verdict THEN verdictEnq + 1 ELSE verdictEnq
               /\ starts' = IF r.started THEN starts + 1 ELSE starts
  /\ UNCHANGED <<reverts, faults, delPhase>>

\* The final session of run_trial_job or the second session of run_analysis_job
\* raises after its statements (the database fails at a statement or at the commit):
\* get_session rolls the transaction back and the handler raises to the queue.  The
\* artifact upload of the trial handler came before its session.
SessionFails(j) ==
  /\ Holds(j, "returned") \/ Holds(j, "a_finish")
  /\ trials[jobs[j].ref].exists
  /\ faults < MaxFaults
  /\ faults' = faults + 1
  /\ uploads' = IF jobs[j].pc = "returned" /\ HasOutcome(jobs[j].out)
                  THEN [uploads EXCEPT ![jobs[j].ref] = TRUE] ELSE uploads
  /\ jobs' = Settle(jobs, j, "failed")
  /\ UNCHANGED <<task, trials, verdictEnq, starts, reverts, delPhase>>

(* -------------------------- analysis handler -------------------------- *)
\* The check of the first session that skips only a successful analysis.
AlreadyAnalyzed_success_only(tr) == tr.analysis_status = "success"
\* "Skip if already analyzed": analysis_status is success or failed.
AlreadyAnalyzed(tr) == tr.analysis_status \in Terminal

\* First session of run_analysis_job.
AnalysisStart(j) ==
  /\ Claims(j, "analysis")
  /\ LET t == jobs[j].ref IN
       IF ~trials[t].exists
         THEN jobs' = Settle(jobs, j, "failed") /\ UNCHANGED trials
       ELSE IF AlreadyAnalyzed(trials[t])
         THEN jobs' = Skip(jobs, j) /\ UNCHANGED trials
       ELSE IF ~task.exists
         THEN jobs' = Settle(jobs, j, "failed") /\ UNCHANGED trials
       ELSE /\ trials' = [trials EXCEPT ![t].analysis_status = "running"]
            /\ jobs' = Picked(jobs, j, "a_finish", None)
  /\ UNCHANGED <<task, uploads, verdictEnq, starts, reverts, faults, delPhase>>

\* The result the second session stores: ok when materialization and the classifier
\* returned a classification, else the exception caught as analysis_error.
\* The store that leaves a failed analysis running.
StoreAnalysis_failure_keeps_running(tr, ok) ==
  IF ok THEN [tr EXCEPT !.analysis_status = "success"]
  ELSE [tr EXCEPT !.analysis_error = TRUE]

StoreAnalysis(tr, ok) ==
  IF ok THEN [tr EXCEPT !.analysis_status = "success"]
  ELSE [tr EXCEPT !.analysis_status = "failed", !.analysis_error = TRUE]

\* The classifier call (ok: it returned a classification) and the second session,
\* with maybe_start_verdict_stage in the same transaction.
AnalysisFinish(j, ok, dies) ==
  /\ Holds(j, "a_finish")
  /\ dies => faults < MaxFaults /\ trials[jobs[j].ref].exists
  /\ faults' = IF dies THEN faults + 1 ELSE faults
  /\ LET t == jobs[j].ref IN
       IF ~trials[t].exists
         THEN /\ jobs' = Settle(jobs, j, "success")
              /\ UNCHANGED <<task, trials, verdictEnq>>
         ELSE LET trs == [trials EXCEPT ![t] = StoreAnalysis(trials[t], ok)]
                  r == maybe_start_verdict_stage(task, trs)
                  q == IF r.verdict THEN enqueue_verdict(jobs) ELSE jobs
              IN /\ trials' = trs
                 /\ task' = r.task
                 /\ jobs' = AfterCommit(q, j, dies)
                 /\ verdictEnq' = IF r.verdict THEN verdictEnq + 1 ELSE verdictEnq
  /\ UNCHANGED <<uploads, starts, reverts, delPhase>>

(* --------------------------- verdict handler -------------------------- *)
\* First session of run_verdict_job; out records whether any classification was loaded.
VerdictStart(j) ==
  /\ Claims(j, "verdict")
  /\ IF ~task.exists
       THEN jobs' = Settle(jobs, j, "failed") /\ UNCHANGED task
     ELSE IF task.verdict_status \in Terminal
       THEN jobs' = Skip(jobs, j) /\ UNCHANGED task
     ELSE /\ task' = [task EXCEPT !.verdict_status = "running"]
          /\ jobs' = Picked(jobs, j, "v_synth",
                            IF \E t \in TrialIds :
                                 trials[t].exists /\ trials[t].analysis_status = "success"
                              THEN "classified" ELSE "empty")
  /\ UNCHANGED <<trials, uploads, verdictEnq, starts, reverts, faults, delPhase>>

\* The synthesis (ok: it returned a verdict) and the second session.
StoreVerdict_failure_keeps_status(tk, ok) ==
  IF ~tk.exists THEN tk
  ELSE IF ok
    THEN [tk EXCEPT !.verdict_status = "success", !.status = "completed",
                    !.finished_at = TRUE]
  ELSE [tk EXCEPT !.verdict_status = "failed", !.verdict_error = TRUE]

StoreVerdict(tk, ok) ==
  IF ~tk.exists THEN tk
  ELSE IF ok
    THEN [tk EXCEPT !.verdict_status = "success", !.status = "completed",
                    !.finished_at = TRUE]
  ELSE [tk EXCEPT !.verdict_status = "failed", !.verdict_error = TRUE,
                  !.status = "completed", !.finished_at = TRUE]

\* The synthesis between the two sessions: it raises when there is no successful
\* classification, and compute_task_verdict may raise; the handler catches both.
VerdictSynthesize(j, ok) ==
  /\ Holds(j, "v_synth")
  /\ jobs[j].out = "empty" => ~ok
  /\ jobs' = Picked(jobs, j, "v_finish", IF ok THEN "verdict" ELSE "error")
  /\ UNCHANGED <<task, trials, uploads, verdictEnq, starts, reverts, faults, delPhase>>

VerdictFinish(j, dies) ==
  /\ Holds(j, "v_finish")
  /\ dies => faults < MaxFaults
  /\ faults' = IF dies THEN faults + 1 ELSE faults
  /\ task' = StoreVerdict(task, jobs[j].out = "verdict")
  /\ jobs' = AfterCommit(jobs, j, dies)
  /\ UNCHANGED <<trials, uploads, verdictEnq, starts, reverts, delPhase>>

(* ---------------------------- API operations -------------------------- *)
\* retry_trial_core without the status check.
Retryable_any_status(tr) == TRUE
\* retry_trial_core accepts terminal trials and "stuck" ones.
Retryable(tr) ==
  \/ tr.status \in Terminal
  \/ /\ tr.status \in {"running", "retrying"}
     /\ (tr.error_message \/ tr.harbor_stage = "completed")

\* The trial row retry_trial_core writes.
ResetTrial_keeps_key(tr) ==
  [tr EXCEPT !.status = "queued", !.error_message = FALSE, !.reward = None,
             !.harbor_stage = None, !.trial_s3_key = FALSE, !.attempts = 0]
\* A reset that also clears the analysis of the previous run.
ResetTrial_clears_analysis(tr) ==
  [tr EXCEPT !.status = "queued", !.error_message = FALSE, !.reward = None,
             !.harbor_stage = None, !.trial_s3_key = FALSE, !.attempts = 0,
             !.idempotency_key = None, !.analysis_status = None,
             !.analysis_error = FALSE]
ResetTrial(tr) ==
  [tr EXCEPT !.status = "queued", !.error_message = FALSE, !.reward = None,
             !.harbor_stage = None, !.trial_s3_key = FALSE, !.attempts = 0,
             !.idempotency_key = None]

RevertTask(tk) ==
  IF tk.status \in {"completed", "failed"}
    THEN [tk EXCEPT !.status = "running", !.finished_at = FALSE]
    ELSE tk

retry_trial_core(t) ==
  /\ faults < MaxFaults
  /\ task.exists /\ trials[t].exists
  /\ Retryable(trials[t])
  /\ faults' = faults + 1
  /\ trials' = [trials EXCEPT ![t] = ResetTrial(trials[t])]
  /\ jobs' = enqueue_trial(jobs, t)
  /\ task' = RevertTask(task)
  /\ reverts' = IF task.status \in {"completed", "failed"} THEN reverts + 1 ELSE reverts
  /\ UNCHANGED <<uploads, verdictEnq, starts, delPhase>>

\* The lookup without its status filter.
_cancel_pgqueuer_jobs_any_status(q, found) ==
  IF ~found THEN q
  ELSE [j \in DOMAIN q |->
          IF q[j].status \in {"queued", "picked"} THEN [q[j] EXCEPT !.status = "cancelled"]
          ELSE q[j]]

\* The rows after the lookup (status = 'queued', by trial_id or task_id) and the mark;
\* found is FALSE when the lookup raises, and the function then returns 0.
_cancel_pgqueuer_jobs(q, found) ==
  IF ~found THEN q
  ELSE [j \in DOMAIN q |->
          IF q[j].status = "queued" THEN [q[j] EXCEPT !.status = "cancelled"] ELSE q[j]]

\* cancel_pgqueuer_jobs_for_trials / _for_tasks as the delete endpoint calls them, on
\* the pool's own connection (committed before the rows are deleted).
cancel_pgqueuer_jobs(found) ==
  /\ delPhase = "none"
  /\ task.exists
  /\ faults < MaxFaults
  /\ faults' = faults + 1
  /\ delPhase' = IF found THEN "cancelled" ELSE "lookup_failed"
  /\ jobs' = _cancel_pgqueuer_jobs(jobs, found)
  /\ UNCHANGED <<task, trials, uploads, verdictEnq, starts, reverts>>

\* The deletion of the trial rows and the task row, committed.
delete_rows ==
  /\ delPhase \in {"cancelled", "lookup_failed"}
  /\ delPhase' = "deleted"
  /\ task' = [task EXCEPT !.exists = FALSE, !.status = None, !.verdict_status = None,
                          !.finished_at = FALSE, !.verdict_error = FALSE]
  /\ trials' = [t \in TrialIds |-> DeletedTrial]
  /\ UNCHANGED <<jobs, uploads, verdictEnq, starts, reverts, faults>>


(* ------------------- slot leases and one-shot workers ------------------ *)
Workers == 1..NumWorkers
SlotIds == 0..(MaxSlots - 1)

\* A queue_slots row.  0 stands for NULL in locked_by (workers are 1..NumWorkers) and
\* in locked_until (the clock starts at 1).  rowlock is the worker whose transaction
\* holds the row's lock (FOR UPDATE), or 0.
FreeSlot == [exists |-> TRUE, locked_by |-> 0, locked_until |-> 0, rowlock |-> 0]
NoSlot == [exists |-> FALSE, locked_by |-> 0, locked_until |-> 0, rowlock |-> 0]

\* A worker before it acquired a slot (slot = None) or claimed a job (job = 0); deadline
\* is the time at which the platform ends the container (0 before it started).
NewWorker == [pc |-> "spawned", slot |-> None, job |-> 0, deadline |-> 0]

\* A container timeout that outlasts the lease.
WorkerTimeoutTicks_beyond_lease == LeaseTicks + 1
\* The container's timeout, WORKER_TIMEOUT_SECONDS: the lease is taken for
\* WORKER_TIMEOUT_SECONDS + 30.
WorkerTimeoutTicks == LeaseTicks - 1

\* A container that is running process_single_job.
Live(w) == wk[w].pc \in {"acquiring", "claim", "claiming", "handling", "release"}

\* INSERT ... generate_series(0, limit - 1) ON CONFLICT DO NOTHING.
_ensure_queue_slots(rows, lim) ==
  [s \in SlotIds |-> IF s < lim /\ ~rows[s].exists THEN FreeSlot ELSE rows[s]]

\* The candidate rows of _acquire_queue_slot's SELECT ... FOR UPDATE SKIP LOCKED.
SlotCandidate_any_slot(rows, lim, s) ==
  /\ rows[s].exists
  /\ rows[s].locked_until = 0 \/ rows[s].locked_until <= now
  /\ rows[s].rowlock = 0
\* Only rows whose lease was cleared (by a release or by the sweep).
SlotCandidate_cleared_only(rows, lim, s) ==
  /\ rows[s].exists
  /\ s < lim
  /\ rows[s].locked_until = 0
  /\ rows[s].rowlock = 0
SlotCandidate(rows, lim, s) ==
  /\ rows[s].exists
  /\ s < lim
  /\ rows[s].locked_until = 0 \/ rows[s].locked_until <= now
  /\ rows[s].rowlock = 0

\* process_single_job up to the candidate SELECT of _acquire_queue_slot: the rows are
\* ensured, then the lowest candidate is locked, or there is none and the worker exits.
AcquireSelect(w) ==
  /\ wk[w].pc = "spawned"
  /\ LET rows == _ensure_queue_slots(queue_slots, limit)
         cand == {s \in SlotIds : SlotCandidate(rows, limit, s)}
     IN IF cand = {}
          THEN /\ queue_slots' = rows
               /\ wk' = [wk EXCEPT ![w].pc = "exit"]
          ELSE LET s == CHOOSE c \in cand : \A d \in cand : c <= d
               IN /\ queue_slots' = [rows EXCEPT ![s].rowlock = w]
                  /\ wk' = [wk EXCEPT ![w].pc = "acquiring", ![w].slot = s,
                                      ![w].deadline = now + WorkerTimeoutTicks]
  /\ UNCHANGED <<limit, pgq, now, wcrashes>>

\* locked_until = NOW() + make_interval(secs => lease_seconds).
locked_until_no_margin(t) == t + WorkerTimeoutTicks - 1
locked_until(t) == t + LeaseTicks

\* The UPDATE of _acquire_queue_slot and its commit.
AcquireUpdate(w) ==
  /\ wk[w].pc = "acquiring"
  /\ queue_slots' = [queue_slots EXCEPT ![wk[w].slot] =
       [@ EXCEPT !.locked_by = w, !.locked_until = locked_until(now), !.rowlock = 0]]
  /\ wk' = [wk EXCEPT ![w].pc = "claim"]
  /\ UNCHANGED <<limit, pgq, now, wcrashes>>

\* The queue's claim: the rows a claiming worker may take (queued, not locked by
\* another claim in flight).
Claimable_no_lock(q, j) == q[j].status = "queued"
Claimable(q, j) == q[j].status = "queued" /\ q[j].rowlock = 0

ClaimSelect(w) ==
  /\ wk[w].pc = "claim"
  /\ LET cand == {j \in DOMAIN pgq : Claimable(pgq, j)}
     IN IF cand = {}
          THEN /\ wk' = [wk EXCEPT ![w].pc = "release"]
               /\ UNCHANGED pgq
          ELSE LET j == CHOOSE c \in cand : \A d \in cand : c <= d   \* ORDER BY id
               IN /\ pgq' = [pgq EXCEPT ![j].rowlock = w]
                  /\ wk' = [wk EXCEPT ![w].pc = "claiming", ![w].job = j]
  /\ UNCHANGED <<queue_slots, limit, now, wcrashes>>

ClaimUpdate(w) ==
  /\ wk[w].pc = "claiming"
  /\ pgq' = [pgq EXCEPT ![wk[w].job] = [@ EXCEPT !.status = "picked", !.rowlock = 0]]
  /\ wk' = [wk EXCEPT ![w].pc = "handling"]
  /\ UNCHANGED <<queue_slots, limit, now, wcrashes>>

\* How the handler of a one-shot worker ends: it returns, it raises, or the worker's
\* task is cancelled while the handler runs.
HandlerOutcomes == {"success", "exception", "cancelled"}

\* The queue row after the handler ended: success, failed (the handler raised), or
\* still picked (the cancelled worker settled nothing).
RowAfter(out) ==
  CASE out = "success" -> "success" [] out = "exception" -> "failed" [] OTHER -> "picked"

\* A worker whose try body ends without the finally block on any path but the
\* normal return.
AfterRun_release_on_return_only(out) == IF out = "success" THEN "release" ELSE "exit"
\* process_single_job after qm.run ended: the except clauses re-raise and the
\* finally block runs on every path.
AfterRun(out) == "release"

\* handle_queue_job ends: the row is settled and the worker shuts down.
HandleJob(w, out) ==
  /\ wk[w].pc = "handling"
  /\ pgq' = [pgq EXCEPT ![wk[w].job].status = RowAfter(out)]
  /\ wk' = [wk EXCEPT ![w].pc = AfterRun(out)]
  /\ UNCHANGED <<queue_slots, limit, now, wcrashes>>

\* UPDATE ... WHERE slot = $2, whoever holds the lease.
_release_queue_slot_any_holder(rows, s, w) ==
  [rows EXCEPT ![s].locked_by = 0, ![s].locked_until = 0]
\* UPDATE ... WHERE slot = $2 AND locked_by = $3.
_release_queue_slot(rows, s, w) ==
  IF rows[s].locked_by = w
    THEN [rows EXCEPT ![s].locked_by = 0, ![s].locked_until = 0]
    ELSE rows

\* The finally block of process_single_job.
Release(w) ==
  /\ wk[w].pc = "release"
  /\ queue_slots[wk[w].slot].rowlock = 0
  /\ queue_slots' = _release_queue_slot(queue_slots, wk[w].slot, w)
  /\ wk' = [wk EXCEPT ![w].pc = "exit"]
  /\ UNCHANGED <<limit, pgq, now, wcrashes>>

\* The container is killed while it holds its lease, and the finally block does not
\* run: at its timeout, or earlier (out of memory, preemption).
KillWorker(w) ==
  /\ wk[w].pc \in {"claim", "handling", "release"}
  /\ \/ wcrashes < MaxWorkerCrash /\ wcrashes' = wcrashes + 1
     \/ now >= wk[w].deadline /\ wcrashes' = wcrashes
  /\ wk' = [wk EXCEPT ![w].pc = "dead"]
  /\ UNCHANGED <<queue_slots, limit, pgq, now>>

\* After the retry timer the queue hands out again the picked row of a worker that
\* died or was cancelled.
RedeliverPicked(j) ==
  /\ pgq[j].status = "picked"
  /\ \A w \in Workers : wk[w].job = j => wk[w].pc \in {"dead", "exit"}
  /\ pgq' = [pgq EXCEPT ![j].status = "queued"]
  /\ UNCHANGED <<queue_slots, limit, wk, now, wcrashes>>

\* The rows _cleanup_stale_queue_slots clears.
StaleSlot(rows, s) ==
  rows[s].exists /\ rows[s].locked_by # 0 /\ rows[s].locked_until # 0
    /\ rows[s].locked_until <= now

_cleanup_stale_queue_slots ==
  /\ \E s \in SlotIds : StaleSlot(queue_slots, s)
  /\ \A s \in SlotIds : StaleSlot(queue_slots, s) => queue_slots[s].rowlock = 0
  /\ queue_slots' = [s \in SlotIds |->
       IF StaleSlot(queue_slots, s)
         THEN [queue_slots[s] EXCEPT !.locked_by = 0, !.locked_until = 0]
         ELSE queue_slots[s]]
  /\ UNCHANGED <<limit, pgq, wk, now, wcrashes>>

\* The clock advances; a tick is long against a transaction, and no container runs
\* past its timeout.
Tick ==
  /\ now < MaxTime
  /\ \A w \in Workers : Live(w) => now < wk[w].deadline
  /\ \A s \in SlotIds : queue_slots[s].rowlock = 0
  /\ \A j \in DOMAIN pgq : pgq[j].rowlock = 0
  /\ now' = now + 1
  /\ UNCHANGED <<queue_slots, limit, pgq, wk, wcrashes>>

\* The pipeline's variables while the slot-lease model runs, and the reverse.
PipelineIdle ==
  /\ task = [exists |-> FALSE, status |-> None, run_analysis |-> FALSE,
             verdict_status |-> None, finished_at |-> FALSE, verdict_error |-> FALSE]
  /\ trials = [t \in TrialIds |-> DeletedTrial]
  /\ jobs = <<>>
  /\ uploads = [t \in TrialIds |-> FALSE]
  /\ verdictEnq = 0 /\ starts = 0 /\ reverts = 0 /\ faults = 0 /\ delPhase = "none"

WorkersIdle ==
  /\ queue_slots = [s \in SlotIds |-> NoSlot]
  /\ limit = 0
  /\ pgq = <<>>
  /\ wk = [w \in Workers |-> NewWorker]
  /\ now = 1
  /\ wcrashes = 0

KeysIdle ==
  /\ kin = <<>> /\ kstr = <<>> /\ kprev = <<>> /\ kcalls = 0
  /\ kq = {} /\ kkeys = {} /\ kplan = {}

LocksIdle ==
  /\ txn = <<>>
  /\ tasklock = 0

DispatchIdle == dq = <<>>

PlanIdle ==
  /\ queue_counts = <<>> /\ concurrency_limits = <<>> /\ max_workers = 0
  /\ spawn_plan = <<>> /\ polled = FALSE

\* The table may hold rows beyond the limit, left free by an earlier larger limit.
WorkerInit ==
  /\ PipelineIdle
  /\ limit \in 0..MaxLimit
  /\ \E n \in 0..MaxSlots :
       queue_slots = [s \in SlotIds |-> IF s < n THEN FreeSlot ELSE NoSlot]
  /\ \E n \in 1..MaxJobs : pgq = [j \in 1..n |-> [status |-> "queued", rowlock |-> 0]]
  /\ wk = [w \in Workers |-> NewWorker]
  /\ now = 1
  /\ wcrashes = 0
  /\ KeysIdle
  /\ LocksIdle /\ DispatchIdle /\ PlanIdle

WorkerNext ==
  \/ UNCHANGED <<pvars, kvars, lvars, dvars, nvars>> /\ \E w \in Workers : AcquireSelect(w)
  \/ UNCHANGED <<pvars, kvars, lvars, dvars, nvars>> /\ \E w \in Workers : AcquireUpdate(w)
  \/ UNCHANGED <<pvars, kvars, lvars, dvars, nvars>> /\ \E w \in Workers : ClaimSelect(w)
  \/ UNCHANGED <<pvars, kvars, lvars, dvars, nvars>> /\ \E w \in Workers : ClaimUpdate(w)
  \/ UNCHANGED <<pvars, kvars, lvars, dvars, nvars>> /\ \E w \in Workers, out \in HandlerOutcomes : HandleJob(w, out)
  \/ UNCHANGED <<pvars, kvars, lvars, dvars, nvars>> /\ \E w \in Workers : Release(w)
  \/ UNCHANGED <<pvars, kvars, lvars, dvars, nvars>> /\ \E w \in Workers : KillWorker(w)
  \/ UNCHANGED <<pvars, kvars, lvars, dvars, nvars>> /\ \E j \in DOMAIN pgq : RedeliverPicked(j)
  \/ UNCHANGED <<pvars, kvars, lvars, dvars, nvars>> /\ _cleanup_stale_queue_slots
  \/ UNCHANGED <<pvars, kvars, lvars, dvars, nvars>> /\ Tick

WorkerSpec == WorkerInit /\ [][WorkerNext]_vars


(* --------------------- _release_queue_slot, applied --------------------- *)
\* The rows a slot of the table may be: absent, free, or leased to a worker.
SlotRows ==
  {NoSlot, FreeSlot}
    \cup {[exists |-> TRUE, locked_by |-> w, locked_until |-> u, rowlock |-> 0] :
            w \in Workers, u \in 1..(1 + LeaseTicks)}

ReleaseInit ==
  /\ PipelineIdle
  /\ limit \in 1..MaxLimit
  /\ queue_slots \in [SlotIds -> SlotRows]
  /\ pgq = <<>>
  /\ wk = [w \in Workers |-> NewWorker]
  /\ now = 1
  /\ wcrashes = 0
  /\ KeysIdle
  /\ LocksIdle /\ DispatchIdle /\ PlanIdle

\* A caller w releases slot s: the call of the finally block, made with any slot
\* number and worker id.
ReleaseCall(s, w) ==
  /\ wk[w].pc = "spawned"
  /\ queue_slots[s].exists
  /\ queue_slots' = _release_queue_slot(queue_slots, s, w)
  /\ wk' = [wk EXCEPT ![w].pc = "exit", ![w].slot = s]
  /\ UNCHANGED <<limit, pgq, now, wcrashes>>

ReleaseNext ==
  \/ UNCHANGED <<pvars, kvars, lvars, dvars, nvars>> /\ \E s \in SlotIds, w \in Workers : ReleaseCall(s, w)
  \/ UNCHANGED <<pvars, kvars, lvars, dvars, nvars>> /\ _cleanup_stale_queue_slots

ReleaseSpec == ReleaseInit /\ [][ReleaseNext]_vars


(* --------------------- normalize_queue_key, applied -------------------- *)
NormInit ==
  /\ PipelineIdle /\ WorkersIdle /\ LocksIdle /\ DispatchIdle /\ PlanIdle
  /\ kin \in KeyInputs
  /\ kstr = kin /\ kprev = kin /\ kcalls = 0
  /\ kq = {} /\ kkeys = {} /\ kplan = {}

\* One more application, to the result of the last.
Normalize ==
  /\ kcalls < MaxCalls
  /\ kprev' = kstr
  /\ kstr' = normalize_queue_key(kstr)
  /\ kcalls' = kcalls + 1
  /\ UNCHANGED <<kin, kq, kkeys, kplan>>

NormNext == UNCHANGED <<pvars, svars, lvars, dvars, nvars>> /\ Normalize

NormSpec == NormInit /\ [][NormNext]_vars


(* ----------------- the keys of enqueue, dispatcher, worker ------------- *)
\* The model strings trials are created with, each with the model it names.
TrialModelInputs ==
  {[model |-> "gpt-4", text |-> t] :
     t \in {W_gpt4, upper(W_gpt4), <<" ">> \o W_gpt4, <<"o", "p", "e", "n", "a", "i", "/", "g", "p", "t", "-", "4">>, upper(<<"o", "p", "e", "n", "a", "i", "/", "g", "p", "t", "-", "4">>)}}
  \cup
  {[model |-> "claude-haiku-4-5", text |-> t] :
     t \in {analysis_model, upper(analysis_model), <<"a", "n", "t", "h", "r", "o", "p", "i", "c", "/", "c", "l", "a", "u", "d", "e", "-", "h", "a", "i", "k", "u", "-", "4", "-", "5">>}}
  \cup
  {[model |-> "none", text |-> t] : t \in {<<>>, <<"-">>, <<"N", "o", "n", "e">>, <<"n", "/", "a">>, W_default}}
  \cup
  {[model |-> "foo", text |-> t] : t \in {<<"f", "o", "o">>, <<"F", "O", "O", " ">>}}

KeyJobIds == 1..MaxKeyJobs
FreeKeyJobIds == KeyJobIds \ {r.id : r \in kq}

\* The entrypoint enqueue_trial / enqueue_analysis / enqueue_verdict write.
resolved_queue_key(queue_key) == normalize_queue_key(queue_key)

KeyRow(id, model, text, queue_key) ==
  [id |-> id, model |-> model, text |-> text, entrypoint |-> resolved_queue_key(queue_key),
   status |-> "queued", polled |-> FALSE, counted |-> FALSE,
   slot_key |-> NoneStr, limit_key |-> NoneStr]

\* create_task: the trial's queue key from its model, then enqueue_trial.
KeyEnqueueTrial(m) ==
  /\ FreeKeyJobIds # {}
  /\ kq' = kq \cup {KeyRow(CHOOSE i \in FreeKeyJobIds : \A k \in FreeKeyJobIds : i <= k,
                           m.model, m.text, get_queue_key_for_trial(m.text))}
  /\ UNCHANGED <<kin, kstr, kprev, kcalls, kkeys, kplan>>

KeyEnqueueAnalysis ==
  /\ FreeKeyJobIds # {}
  /\ kq' = kq \cup {KeyRow(CHOOSE i \in FreeKeyJobIds : \A k \in FreeKeyJobIds : i <= k,
                           "claude-haiku-4-5", analysis_model, get_analysis_queue_key)}
  /\ UNCHANGED <<kin, kstr, kprev, kcalls, kkeys, kplan>>

KeyEnqueueVerdict ==
  /\ FreeKeyJobIds # {}
  /\ kq' = kq \cup {KeyRow(CHOOSE i \in FreeKeyJobIds : \A k \in FreeKeyJobIds : i <= k,
                           "gpt-5.2", verdict_model, get_verdict_queue_key)}
  /\ UNCHANGED <<kin, kstr, kprev, kcalls, kkeys, kplan>>

ActiveRows(rows) == {r \in rows : r.status \in {"queued", "picked"}}
raw_key(entrypoint) == replace_space(lower(strip(entrypoint)))

discover_active_queue_keys(rows) ==
  LET discovered ==
        UNION {{raw_key(r.entrypoint), normalize_queue_key(raw_key(r.entrypoint))} :
                 r \in {a \in ActiveRows(rows) : raw_key(a.entrypoint) # <<>>}}
        \cup get_known_queue_keys
  IN IF discovered = {} THEN {W_default} ELSE discovered

\* get_queue_counts: the rows counted under key k (entrypoint = k).
get_queue_counts(rows, k, status) ==
  Cardinality({r \in ActiveRows(rows) : r.entrypoint = k /\ r.status = status})

\* The keys build_spawn_plan gives a worker: capacity min(queued, limit - running) > 0.
HasCapacity(rows, k) ==
  /\ get_queue_counts(rows, k, "queued") > 0
  /\ get_model_concurrency(k) - get_queue_counts(rows, k, "picked") > 0

\* One cycle of the dispatcher: discover the keys, count, spawn.
poll_queue ==
  /\ kkeys' = discover_active_queue_keys(kq)
  /\ kq' = {[r EXCEPT !.polled = TRUE, !.counted = r.entrypoint \in kkeys'] : r \in kq}
  /\ kplan' = {k \in kkeys' : HasCapacity(kq, k)}
  /\ UNCHANGED <<kin, kstr, kprev, kcalls>>

\* A spawned worker: slot lease and limit under its queue key, then it claims a row
\* of the entrypoint registered under that key.
process_single_job(k) ==
  /\ k \in kplan
  /\ kplan' = kplan \ {k}
  /\ LET cand == {r \in kq : r.status = "queued" /\ r.entrypoint = k}
     IN IF cand = {} THEN UNCHANGED kq
        ELSE LET r == CHOOSE c \in cand : \A d \in cand : c.id <= d.id
             IN kq' = (kq \ {r}) \cup
                        {[r EXCEPT !.status = "picked", !.slot_key = k,
                                   !.limit_key = normalize_queue_key(k)]}
  /\ UNCHANGED <<kin, kstr, kprev, kcalls, kkeys>>

\* The handler returns and the row leaves the active rows.
KeyJobDone(r) ==
  /\ r \in kq /\ r.status = "picked"
  /\ kq' = kq \ {r}
  /\ UNCHANGED <<kin, kstr, kprev, kcalls, kkeys, kplan>>

KeyInit ==
  /\ PipelineIdle /\ WorkersIdle /\ KeysIdle /\ LocksIdle /\ DispatchIdle /\ PlanIdle

KeyNext ==
  \/ UNCHANGED <<pvars, svars, lvars, dvars, nvars>> /\ \E m \in TrialModelInputs : KeyEnqueueTrial(m)
  \/ UNCHANGED <<pvars, svars, lvars, dvars, nvars>> /\ KeyEnqueueAnalysis
  \/ UNCHANGED <<pvars, svars, lvars, dvars, nvars>> /\ KeyEnqueueVerdict
  \/ UNCHANGED <<pvars, svars, lvars, dvars, nvars>> /\ poll_queue
  \/ UNCHANGED <<pvars, svars, lvars, dvars, nvars>> /\ \E k \in kplan : process_single_job(k)
  \/ UNCHANGED <<pvars, svars, lvars, dvars, nvars>> /\ \E r \in kq : KeyJobDone(r)

KeySpec == KeyInit /\ [][KeyNext]_vars

(* ---------------------------- specification --------------------------- *)
\* create_task: the task row, its trial rows and one queued trial job per trial,
\* committed together.
RECURSIVE InitialJobs(_)
InitialJobs(n) == IF n = 0 THEN <<>> ELSE enqueue_trial(InitialJobs(n - 1), n)

Init ==
  /\ task \in {[exists |-> TRUE, status |-> "pending", run_analysis |-> ra,
                verdict_status |-> None, finished_at |-> FALSE,
                verdict_error |-> FALSE] : ra \in BOOLEAN}
  /\ trials = [t \in TrialIds |-> NewTrial]
  /\ jobs = InitialJobs(NumTrials)
  /\ uploads = [t \in TrialIds |-> FALSE]
  /\ verdictEnq = 0
  /\ starts = 0
  /\ reverts = 0
  /\ faults = 0
  /\ delPhase = "none"
  /\ WorkersIdle
  /\ KeysIdle
  /\ LocksIdle /\ DispatchIdle /\ PlanIdle

Next ==
  \/ UNCHANGED <<svars, kvars, lvars, dvars, nvars>> /\ \E j \in JobIds : Crash(j)
  \/ UNCHANGED <<svars, kvars, lvars, dvars, nvars>> /\ \E j \in JobIds : Redeliver(j)
  \/ UNCHANGED <<svars, kvars, lvars, dvars, nvars>> /\ \E j \in JobIds : TrialCheck(j)
  \/ UNCHANGED <<svars, kvars, lvars, dvars, nvars>> /\ \E j \in JobIds : TrialMark(j)
  \/ UNCHANGED <<svars, kvars, lvars, dvars, nvars>> /\ \E j \in JobIds, ev \in HookEvents : Hook(j, ev)
  \/ UNCHANGED <<svars, kvars, lvars, dvars, nvars>> /\ \E j \in JobIds : RunnerRaises(j)
  \/ UNCHANGED <<svars, kvars, lvars, dvars, nvars>> /\ \E j \in JobIds : TrialFinal(j)
  \/ UNCHANGED <<svars, kvars, lvars, dvars, nvars>> /\ \E j \in JobIds : AnalysisStart(j)
  \/ UNCHANGED <<svars, kvars, lvars, dvars, nvars>> /\ \E j \in JobIds, ok, dies \in BOOLEAN : AnalysisFinish(j, ok, dies)
  \/ UNCHANGED <<svars, kvars, lvars, dvars, nvars>> /\ \E j \in JobIds : SessionFails(j)
  \/ UNCHANGED <<svars, kvars, lvars, dvars, nvars>> /\ \E j \in JobIds : VerdictStart(j)
  \/ UNCHANGED <<svars, kvars, lvars, dvars, nvars>> /\ \E j \in JobIds, ok \in BOOLEAN : VerdictSynthesize(j, ok)
  \/ UNCHANGED <<svars, kvars, lvars, dvars, nvars>> /\ \E j \in JobIds, dies \in BOOLEAN : VerdictFinish(j, dies)
  \/ UNCHANGED <<svars, kvars, lvars, dvars, nvars>> /\ \E t \in TrialIds : retry_trial_core(t)
  \/ UNCHANGED <<svars, kvars, lvars, dvars, nvars>> /\ \E found \in BOOLEAN : cancel_pgqueuer_jobs(found)
  \/ UNCHANGED <<svars, kvars, lvars, dvars, nvars>> /\ delete_rows

Spec == Init /\ [][Next]_vars

\* The queue keeps delivering: a queued row is claimed by a worker, a running handler
\* takes its next step, and the retry timer hands out failed rows and the rows of dead
\* workers again.  Crashes, sandbox failures and API calls are not forced.
HandlerNext ==
  /\ UNCHANGED <<svars, kvars, lvars, dvars, nvars>>
  /\ \E j \in JobIds :
       \/ Redeliver(j) \/ TrialCheck(j) \/ TrialMark(j) \/ Hook(j, "reward")
       \/ TrialFinal(j) \/ AnalysisStart(j) \/ AnalysisFinish(j, TRUE, FALSE)
       \/ VerdictStart(j) \/ VerdictSynthesize(j, jobs[j].out # "empty")
       \/ VerdictFinish(j, FALSE)

FairSpec == Spec /\ WF_vars(HandlerNext)


(* ----------------------- writers of the task row ----------------------- *)
\* The transactions that write tasks.status, each as the read of the task row that
\* its check uses and the write that follows it.  The trials are finished and stay
\* as they are while the transactions run.
TaskWriters == 1..NumWriters

TaskOps ==
  {"run_trial_job", "maybe_start_analysis_stage", "maybe_start_verdict_stage",
   "run_verdict_job", "retry_trial_core"}

\* The reads of the task row made with SELECT ... FOR UPDATE.
ForUpdate(op) == op \in {"maybe_start_analysis_stage", "maybe_start_verdict_stage"}

FinishedTrial(a) ==
  on_harbor_event([MarkRunning(<<"trial", 1, 1>>, NewTrial) EXCEPT !.analysis_status = a], "reward")

LockTasks ==
  {[exists |-> TRUE, status |-> st, run_analysis |-> ra,
    verdict_status |-> IF st = "verdict_pending" THEN "queued" ELSE None,
    finished_at |-> (st = "completed"), verdict_error |-> FALSE] :
      st \in {"pending", "running", "analyzing", "verdict_pending", "completed"},
      ra \in BOOLEAN}

LockInit ==
  /\ task \in {tk \in LockTasks : tk.status \in {"analyzing", "verdict_pending"}
                                    => tk.run_analysis}
  /\ \E a \in {None, "success"} :
       /\ a = "success" => task.run_analysis
       /\ trials = [t \in TrialIds |-> FinishedTrial(a)]
  /\ jobs = <<>>
  /\ uploads = [t \in TrialIds |-> FALSE]
  /\ verdictEnq = 0 /\ starts = 0 /\ reverts = 0 /\ faults = 0 /\ delPhase = "none"
  /\ txn = [w \in TaskWriters |-> [pc |-> "idle", op |-> None, seen |-> task]]
  /\ tasklock = 0
  /\ WorkersIdle
  /\ KeysIdle /\ DispatchIdle /\ PlanIdle

\* The read of the task row: session.get, or the locking select, which waits while
\* another transaction holds the row.
TxnRead(w, op) ==
  /\ txn[w].pc = "idle"
  /\ ForUpdate(op) => tasklock = 0
  /\ tasklock' = IF ForUpdate(op) THEN w ELSE tasklock
  /\ txn' = [txn EXCEPT ![w] = [pc |-> "read", op |-> op, seen |-> task]]
  /\ UNCHANGED pvars

\* What the operation assigns to the task object it has read.
TaskAssign(op, tk, trs, ok) ==
  CASE op = "run_trial_job" -> StartTask(tk)
    [] op = "maybe_start_analysis_stage" -> maybe_start_analysis_stage(tk, trs).task
    [] op = "maybe_start_verdict_stage" -> maybe_start_verdict_stage(tk, trs).task
    [] op = "run_verdict_job" -> StoreVerdict(tk, ok)
    [] OTHER -> RevertTask(tk)

\* The flush and commit: the UPDATE sets the columns the operation has changed on the
\* object it read; it waits while another transaction holds the row, and the commit
\* frees the lock.
TxnWrite(w, ok) ==
  /\ txn[w].pc = "read"
  /\ tasklock \in {0, w}
  /\ LET seen == txn[w].seen
         new == TaskAssign(txn[w].op, seen, trials, ok)
     IN task' = [c \in DOMAIN task |-> IF new[c] # seen[c] THEN new[c] ELSE task[c]]
  /\ tasklock' = 0
  /\ txn' = [txn EXCEPT ![w].pc = "done"]
  /\ UNCHANGED <<trials, jobs, uploads, verdictEnq, starts, reverts, faults, delPhase>>

LockNext ==
  \/ UNCHANGED <<svars, kvars, dvars, nvars>> /\ \E w \in TaskWriters, op \in TaskOps : TxnRead(w, op)
  \/ UNCHANGED <<svars, kvars, dvars, nvars>> /\ \E w \in TaskWriters, ok \in BOOLEAN : TxnWrite(w, ok)

LockSpec == LockInit /\ [][LockNext]_vars


(* ----------------------------- job dispatch ---------------------------- *)
\* A payload as the dispatch reads it: job_type (None when the key is absent) and
\* whether trial_id and task_id are present and not empty.
Payloads ==
  [job_type : {None, "trial", "analysis", "verdict", "other"},
   trial_id : BOOLEAN, task_id : BOOLEAN]

\* The entry checks of the three handlers: "raise" for a payload without the id.
run_trial_job(p) == IF ~p.trial_id THEN "raise" ELSE "run_trial_job"
run_analysis_job(p) == IF ~p.trial_id THEN "raise" ELSE "run_analysis_job"
run_verdict_job(p) == IF ~p.task_id THEN "raise" ELSE "run_verdict_job"

\* The one-shot worker's dispatch: the handler that runs, or "raise".
handle_queue_job(p) ==
  LET job_type == IF p.job_type = None /\ p.trial_id THEN "trial" ELSE p.job_type
  IN CASE job_type = "trial" -> run_trial_job(p)
       [] job_type = "analysis" -> run_analysis_job(p)
       [] job_type = "verdict" -> run_verdict_job(p)
       [] OTHER -> "raise"

\* The long-running queue manager's dispatch: payload["job_type"] raises KeyError when
\* the key is absent; an unknown job type is printed and the handler returns.
handle_provider_job(p) ==
  CASE p.job_type = None -> "raise"
    [] p.job_type = "trial" -> run_trial_job(p)
    [] p.job_type = "analysis" -> run_analysis_job(p)
    [] p.job_type = "verdict" -> run_verdict_job(p)
    [] OTHER -> "return"

DispatchInit ==
  /\ PipelineIdle /\ WorkersIdle /\ KeysIdle /\ LocksIdle /\ PlanIdle
  /\ \E n \in 1..MaxPayloadJobs :
       dq \in [1..n -> {[payload |-> p, status |-> "queued", handler |-> None,
                         path |-> None] : p \in Payloads}]

\* A worker of either kind has claimed row j and its dispatch runs: the row fails
\* when the dispatch raises, succeeds when it returns, and is held while a handler runs.
Dispatch(j, path) ==
  /\ dq[j].status = "queued"
  /\ LET r == IF path = "one_shot" THEN handle_queue_job(dq[j].payload)
              ELSE handle_provider_job(dq[j].payload)
     IN dq' = [dq EXCEPT ![j].path = path,
                         ![j].handler = IF r \in {"raise", "return"} THEN None ELSE r,
                         ![j].status = CASE r = "raise" -> "failed"
                                         [] r = "return" -> "success"
                                         [] OTHER -> "picked"]

\* The handler of row j ends, returning or raising.
HandlerEnds(j, ok) ==
  /\ dq[j].status = "picked"
  /\ dq' = [dq EXCEPT ![j].status = IF ok THEN "success" ELSE "failed"]

DispatchNext ==
  \/ UNCHANGED <<pvars, svars, kvars, lvars, nvars>>
       /\ \E j \in DOMAIN dq, path \in {"one_shot", "queue_manager"} : Dispatch(j, path)
  \/ UNCHANGED <<pvars, svars, kvars, lvars, nvars>>
       /\ \E j \in DOMAIN dq, ok \in BOOLEAN : HandlerEnds(j, ok)

DispatchSpec == DispatchInit /\ [][DispatchNext]_vars


(* ------------------------------ spawn plan ----------------------------- *)
\* The queue keys of a poll, as their ranks in sorted order.
PlanKeys == 1..NumPlanKeys

Min2(a, b) == IF a <= b THEN a ELSE b
Max2(a, b) == IF a >= b THEN a ELSE b

RECURSIVE SumTo(_, _)
SumTo(f, k) == IF k = 0 THEN 0 ELSE f[k] + SumTo(f, k - 1)

\* capacity_by_queue without the running jobs of the key.
capacity_by_queue_ignoring_picked(qc, cl) ==
  [k \in PlanKeys |-> Max2(Min2(qc[k].queued, cl[k]), 0)]

capacity_by_queue(qc, cl) ==
  [k \in PlanKeys |-> Max2(Min2(qc[k].queued, cl[k] - qc[k].picked), 0)]

\* The while loop over passes and the for loop over the sorted keys: key k of the
\* current pass is next, progressed tells whether the pass has appended a key.
RECURSIVE RoundRobin(_, _, _, _, _)
RoundRobin(plan, cap, k, n, progressed) ==
  IF Len(plan) >= n THEN plan
  ELSE IF k > NumPlanKeys
    THEN IF progressed THEN RoundRobin(plan, cap, 1, n, FALSE) ELSE plan
  ELSE IF cap[k] > 0
    THEN RoundRobin(Append(plan, k), [cap EXCEPT ![k] = @ - 1], k + 1, n, TRUE)
  ELSE RoundRobin(plan, cap, k + 1, n, progressed)

\* A plan that serves each key up to its capacity before the next key.
RECURSIVE KeyByKey(_, _, _, _)
KeyByKey(plan, cap, k, n) ==
  IF Len(plan) >= n \/ k > NumPlanKeys THEN plan
  ELSE IF cap[k] > 0
    THEN KeyByKey(Append(plan, k), [cap EXCEPT ![k] = @ - 1], k, n)
  ELSE KeyByKey(plan, cap, k + 1, n)

build_spawn_plan_key_by_key(qc, cl, mw) ==
  LET cap == capacity_by_queue(qc, cl)
      total_capacity == SumTo(cap, NumPlanKeys)
  IN IF total_capacity <= 0 \/ mw <= 0 THEN <<>>
     ELSE KeyByKey(<<>>, cap, 1, Min2(total_capacity, mw))

build_spawn_plan(qc, cl, mw) ==
  LET cap == capacity_by_queue(qc, cl)
      total_capacity == SumTo(cap, NumPlanKeys)
  IN IF total_capacity <= 0 \/ mw <= 0 THEN <<>>
     ELSE RoundRobin(<<>>, cap, 1, Min2(total_capacity, mw), FALSE)

PlanInit ==
  /\ PipelineIdle /\ WorkersIdle /\ KeysIdle /\ LocksIdle /\ DispatchIdle
  /\ queue_counts \in [PlanKeys -> [queued : 0..MaxQueued, picked : 0..MaxPlanLimit]]
  /\ concurrency_limits \in [PlanKeys -> 1..MaxPlanLimit]
  /\ max_workers \in 0..MaxSpawn
  /\ spawn_plan = <<>>
  /\ polled = FALSE

\* One dispatcher cycle, once the workers of the last one have started.
PlanPoll ==
  /\ spawn_plan = <<>>
  /\ spawn_plan' = build_spawn_plan(queue_counts, concurrency_limits, max_workers)
  /\ polled' = ~polled
  /\ UNCHANGED <<queue_counts, concurrency_limits, max_workers>>

\* The first spawned worker starts: it takes a job of its key when one is queued and
\* a slot of the key is free, and exits otherwise.
PlanWorkerStarts ==
  /\ spawn_plan # <<>>
  /\ spawn_plan' = Tail(spawn_plan)
  /\ LET k == Head(spawn_plan) IN
       queue_counts' =
         IF queue_counts[k].queued > 0 /\ queue_counts[k].picked < concurrency_limits[k]
           THEN [queue_counts EXCEPT ![k].queued = @ - 1, ![k].picked = @ + 1]
           ELSE queue_counts
  /\ UNCHANGED <<concurrency_limits, max_workers, polled>>

\* A running job of key k ends.
PlanJobDone(k) ==
  /\ queue_counts[k].picked > 0
  /\ queue_counts' = [queue_counts EXCEPT ![k].picked = @ - 1]
  /\ UNCHANGED <<concurrency_limits, max_workers, spawn_plan, polled>>

\* A job is enqueued on key k.
PlanEnqueue(k) ==
  /\ queue_counts[k].queued < MaxQueued
  /\ queue_counts' = [queue_counts EXCEPT ![k].queued = @ + 1]
  /\ UNCHANGED <<concurrency_limits, max_workers, spawn_plan, polled>>

PlanNext ==
  \/ UNCHANGED <<pvars, svars, kvars, lvars, dvars>> /\ PlanPoll
  \/ UNCHANGED <<pvars, svars, kvars, lvars, dvars>> /\ PlanWorkerStarts
  \/ UNCHANGED <<pvars, svars, kvars, lvars, dvars>> /\ \E k \in PlanKeys : PlanJobDone(k)
  \/ UNCHANGED <<pvars, svars, kvars, lvars, dvars>> /\ \E k \in PlanKeys : PlanEnqueue(k)

PlanSpec == PlanInit /\ [][PlanNext]_vars

\* The schedule runs the dispatcher again and again, spawned workers start, and
\* running jobs end.  Nothing forces jobs to be enqueued.
PlanFairSpec ==
  /\ PlanSpec
  /\ WF_vars(UNCHANGED <<pvars, svars, kvars, lvars, dvars>> /\ PlanPoll)
  /\ WF_vars(UNCHANGED <<pvars, svars, kvars, lvars, dvars>> /\ PlanWorkerStarts)
  /\ \A k \in PlanKeys :
       WF_vars(UNCHANGED <<pvars, svars, kvars, lvars, dvars>> /\ PlanJobDone(k))


(* ------------------------------- claims ------------------------------- *)
TrialJobs == {j \in JobIds : jobs[j].job_type = "trial"}
TrialRefJobs == {j \in JobIds : jobs[j].job_type \in {"trial", "analysis"}}

C2_VerdictAfterAllAnalyses ==
  [][verdictEnq' > verdictEnq =>
       \A t \in TrialIds : trials'[t].exists => trials'[t].analysis_status \in Terminal]_pvars

\* C5: absent an explicit retry, no step moves the task to an earlier status.
TaskRank(status) ==
  CASE status = "pending" -> 0
    [] status = "running" -> 1
    [] status = "analyzing" -> 2
    [] status = "verdict_pending" -> 3
    [] OTHER -> 4

IsRetryStep == \E t \in TrialIds : retry_trial_core(t)

C6_AttemptsBounded ==
  \A t \in TrialIds : trials[t].exists => trials[t].attempts <= trials[t].max_attempts

\* C7: the trial handler invoked for a trial with the idempotency key set and status
\* success or failed returns at once: no trial or task field changes, nothing is
\* uploaded, no job is enqueued.
HandlerStarts(j) ==
  /\ jobs[j].status = "queued"
  /\ jobs'[j].status \in {"picked", "success", "failed"}

C7_TerminalTrialSkipped ==
  [][\A j \in TrialJobs :
       (HandlerStarts(j) /\ trials[jobs[j].ref].exists /\ trials[jobs[j].ref].status \in Terminal
          /\ trials[jobs[j].ref].idempotency_key # None)
       => /\ jobs'[j].status = "success"
          /\ trials' = trials /\ task' = task /\ uploads' = uploads
          /\ DOMAIN jobs' = DOMAIN jobs]_pvars

\* A trial job settled by the idempotency check: the trial is terminal with its key
\* set, and the final session (which would have queued the analysis) never ran.
C7_Witness ==
  /\ delPhase = "none" /\ task.exists /\ task.run_analysis
  /\ \E j \in TrialJobs :
       /\ jobs[j].status = "success"
       /\ trials[jobs[j].ref].status \in Terminal
       /\ trials[jobs[j].ref].idempotency_key # None
       /\ trials[jobs[j].ref].analysis_status = None

\* C8: every queued job that references a trial has a visible trial row.
C8_QueuedJobHasTrial ==
  \A j \in TrialRefJobs : jobs[j].status = "queued" => trials[jobs[j].ref].exists

\* C3: the number of slot leases of the key with locked_until > now is at most the
\* key's limit.
LiveLeases ==
  {s \in SlotIds : queue_slots[s].exists /\ queue_slots[s].locked_until # 0
                     /\ queue_slots[s].locked_until > now}

C3_LiveLeasesWithinLimit == Cardinality(LiveLeases) <= limit

\* The limit is reached while the table holds a free row beyond it, and a worker
\* found no slot and exited.
C3_Witness ==
  /\ Cardinality(LiveLeases) = limit
  /\ \E s \in SlotIds : s >= limit /\ queue_slots[s].exists
  /\ \E w \in Workers : wk[w].pc = "exit" /\ wk[w].slot = None

\* C4: a picked row is held by at most one worker at a time, and a claim comes back
\* empty only when fewer rows are queued than workers are claiming.
Holders(j) == {w \in Workers : wk[w].pc = "handling" /\ wk[w].job = j}
Claiming == {w \in Workers : wk[w].pc = "claiming"}
QueuedRows == {j \in DOMAIN pgq : pgq[j].status = "queued"}
SingleHolder == \A j \in DOMAIN pgq : Cardinality(Holders(j)) <= 1

C4_ClaimExclusive ==
  [][/\ SingleHolder /\ SingleHolder'
     /\ \A w \in Workers :
          (wk[w].pc = "claim" /\ wk'[w].pc = "release")
            => Cardinality(QueuedRows) < Cardinality(Claiming) + 1]_vars

\* Two workers hold two distinct picked rows at once, after claiming concurrently.
C4_Witness ==
  \E w1, w2 \in Workers :
    /\ w1 # w2
    /\ wk[w1].pc = "handling" /\ wk[w2].pc = "handling"
    /\ wk[w1].job # wk[w2].job
    /\ pgq[wk[w1].job].status = "picked" /\ pgq[wk[w2].job].status = "picked"

\* C9: normalize_queue_key is idempotent: applied to its own result it returns it.
C9_NormalizeIdempotent == kcalls >= 2 => kstr = kprev

\* A bare model name written in upper case with padding, normalized twice: the first
\* application changed it (case, padding, inferred provider prefix).
C9_Witness ==
  /\ kcalls = 2
  /\ kin # kprev
  /\ HasSlash(kprev) /\ ~HasSlash(kin)

\* C10: the entrypoint written at enqueue is the key the dispatcher discovers and
\* counts the row under, the key of the worker's slot lease and the key of its limit
\* lookup; rows of one model share one entrypoint, hence one slot-lease key.
C10_OneKeyPerModel ==
  /\ \A r \in kq :
       /\ r.polled => (r.counted /\ r.entrypoint \in kkeys)
       /\ r.status = "picked" => (r.slot_key = r.entrypoint /\ r.limit_key = r.entrypoint)
  /\ \A k \in kkeys : normalize_queue_key(k) = k
  /\ \A r1, r2 \in kq : r1.model = r2.model => r1.entrypoint = r2.entrypoint

\* Two rows of one model, one enqueued under the bare name and one under the
\* prefixed name, both picked under the same slot-lease key.
C10_Witness ==
  \E r1, r2 \in kq :
    /\ r1.model = r2.model /\ r1.id # r2.id
    /\ HasSlash(r1.text) /\ ~HasSlash(r2.text)
    /\ r1.status = "picked" /\ r2.status = "picked"
    /\ r1.slot_key = r2.slot_key

\* C11: of the calls of maybe_start_analysis_stage made by the final sessions of the
\* trials of one task, exactly one per pass returns true: the call that finds the task
\* still pending or running and every trial terminal.  Every other call returns false
\* and leaves the task row unchanged.
AnalysisStageCall(j) ==
  /\ Holds(j, "returned") /\ jobs'[j].status = "success"
  /\ trials[jobs[j].ref].exists
AllTrialsTerminal(trs) == \A t \in TrialIds : trs[t].exists => trs[t].status \in Terminal

FinalSessionEnds(j) ==
  /\ Holds(j, "returned") /\ jobs'[j].status \in {"success", "failed"}
  /\ trials[jobs[j].ref].exists
  /\ faults' = faults     \* the session itself did not fail (SessionFails)

C12_RetryPersisted ==
  [][\A j \in TrialJobs :
       (/\ FinalSessionEnds(j)
        /\ jobs[j].out \in {"error", "cancel_err"}
        /\ trials[jobs[j].ref].attempts < trials[jobs[j].ref].max_attempts)
       => /\ jobs'[j].status = "failed"
          /\ trials'[jobs[j].ref].status = "retrying"
          /\ trials'[jobs[j].ref].attempts = trials[jobs[j].ref].attempts
          /\ trials'[jobs[j].ref].idempotency_key = trials[jobs[j].ref].idempotency_key]_pvars

\* C13: the delivery of a trial job that follows a retry-branch raise re-executes the
\* trial: the idempotency check does not skip it, mark-running adds one to attempts and
\* keeps the idempotency key, and a run that yields a reward ends with the trial in
\* success; also when the END or CANCEL hook of the failed attempt wrote status failed.
AfterRetryBranch(j) == jobs[j].raised /\ trials[jobs[j].ref].exists

C13_RetryReexecutes ==
  [][\A j \in TrialJobs :
       /\ (AfterRetryBranch(j) /\ HandlerStarts(j)) => jobs'[j].status = "picked"
       /\ (AfterRetryBranch(j) /\ Holds(j, "mark") /\ jobs'[j].pc = "run"
              /\ trials[jobs[j].ref].idempotency_key # None)
            => /\ trials'[jobs[j].ref].attempts = trials[jobs[j].ref].attempts + 1
               /\ trials'[jobs[j].ref].idempotency_key = trials[jobs[j].ref].idempotency_key
       /\ (AfterRetryBranch(j) /\ FinalSessionEnds(j) /\ jobs[j].out = "reward")
            => trials'[jobs[j].ref].status = "success"]_pvars

\* C14: a run that ends with no reward and an agent-execution-timeout error after
\* which the verifier ran terminalizes the trial as success with reward 0: the final
\* session does not raise for a retry whatever attempts remain, and when the task has
\* run_analysis the trial's analysis job is enqueued.
AnalysisJobsOf(q, t) == {a \in DOMAIN q : a[1] = "analysis" /\ a[2] = t}

C14_TimeoutIsSuccess ==
  [][\A j \in TrialJobs :
       (FinalSessionEnds(j) /\ jobs[j].out = "timeout")
       => LET t == jobs[j].ref IN
            /\ jobs'[j].status = "success"
            /\ trials'[t].status = "success" /\ trials'[t].reward = "0"
            /\ trials'[t].attempts = trials[t].attempts
            /\ (task.exists /\ task.run_analysis)
                 => /\ trials'[t].analysis_status # None
                    /\ AnalysisJobsOf(jobs', t) # {}
                    /\ trials[t].analysis_status = None
                         => \E a \in AnalysisJobsOf(jobs', t) \ AnalysisJobsOf(jobs, t) :
                              jobs'[a].status = "queued"]_pvars

\* A first attempt timed out with the verifier run: success with reward 0, the error
\* message kept, attempts remaining, the analysis queued.
C14_Witness ==
  \E t \in TrialIds :
    /\ task.exists /\ task.run_analysis
    /\ trials[t].exists /\ trials[t].status = "success" /\ trials[t].reward = "0"
    /\ trials[t].error_message /\ trials[t].attempts = 1 /\ trials[t].trial_s3_key
    /\ trials[t].analysis_status = "queued"
    /\ jobs[<<"trial", t, 1>>].status = "success"

\* C15: a task with run_analysis = false never has an analysis job or a verdict job,
\* no trial of it ever has an analysis_status, it never has a verdict_status, and once
\* all its trials are terminal it becomes completed.
NoAnalysisNoVerdict ==
  /\ \A j \in JobIds : jobs[j].job_type = "trial"
  /\ \A t \in TrialIds : trials[t].analysis_status = None
  /\ task.verdict_status = None

C15_PlainTaskCompletes ==
  /\ [](~task.run_analysis => NoAnalysisNoVerdict)
  /\ (task.exists /\ ~task.run_analysis /\ AllTrialsTerminal(trials))
       ~> (~task.exists \/ task.status = "completed")

\* C16: at no time do more workers execute a job handler for the key than the key's
\* limit, however many workers are spawned and also when more jobs are queued than the
\* limit.
Handling == {w \in Workers : wk[w].pc = "handling"}

C16_HandlersWithinLimit == Cardinality(Handling) <= limit

\* More rows than the limit: the limit is reached by running handlers, a row is still
\* queued, and a further worker found no slot and exited.
C16_Witness ==
  /\ Cardinality(DOMAIN pgq) > limit
  /\ Cardinality(Handling) = limit
  /\ QueuedRows # {}
  /\ \E w \in Workers : wk[w].pc = "exit" /\ wk[w].slot = None

\* C17: the lease of a worker that died without releasing is bounded by lease_seconds,
\* and once it has expired (locked_until <= now) the slot is acquirable whether or not
\* the sweep has cleared it: an acquire finds no slot only if every slot below the
\* limit that carries such a lease is being taken by another acquire.
ExpiredDeadLease(s) ==
  /\ queue_slots[s].exists /\ queue_slots[s].locked_by # 0
  /\ wk[queue_slots[s].locked_by].pc = "dead"
  /\ queue_slots[s].locked_until <= now

C17_ExpiredLeaseAcquirable ==
  [][/\ \A s \in SlotIds :
          queue_slots[s].locked_by # 0
            => (queue_slots[s].locked_until # 0 /\ queue_slots[s].locked_until <= now + LeaseTicks)
     /\ \A w \in Workers :
          (wk[w].pc = "spawned" /\ wk'[w].pc = "exit")
            => \A s \in SlotIds :
                 (s < limit /\ ExpiredDeadLease(s)) => queue_slots[s].rowlock # 0]_vars

\* A worker is taking a slot that still carries the expired lease of a dead worker:
\* no sweep cleared it.
C17_Witness ==
  \E w \in Workers, s \in SlotIds :
    /\ wk[w].pc = "acquiring" /\ wk[w].slot = s
    /\ queue_slots[s].rowlock = w
    /\ ExpiredDeadLease(s)

\* C18: a release of slot s by worker w clears the lease of s only when its locked_by
\* is w; otherwise (the lease was re-issued to another worker, or cleared) the slot
\* table is left unchanged.  No other row is touched.
Released(w) == wk[w].pc = "spawned" /\ wk'[w].pc = "exit"

C18_ReleaseOnlyOwnLease ==
  [][\A w \in Workers :
       Released(w)
       => LET s == wk'[w].slot IN
            /\ queue_slots[s].locked_by # w => queue_slots' = queue_slots
            /\ queue_slots[s].locked_by = w
                 => (queue_slots'[s].locked_by = 0 /\ queue_slots'[s].locked_until = 0)
            /\ \A s2 \in SlotIds \ {s} : queue_slots'[s2] = queue_slots[s2]]_vars

\* A late release: the caller released a slot whose lease another worker holds, and
\* that lease is still there.
C18_Witness ==
  \E w \in Workers :
    /\ wk[w].pc = "exit"
    /\ queue_slots[wk[w].slot].locked_by \notin {0, w}
    /\ queue_slots[wk[w].slot].locked_until > now

\* C19: an explicit retry of a terminal trial leaves the trial queued with reward,
\* error message and artifact location null, attempts 0 and the idempotency key
\* cleared; in the same transaction exactly one trial job is enqueued, on the trial's
\* queue key; the task is set to running if it was completed or failed and is
\* otherwise unchanged.
NewJobs == DOMAIN jobs' \ DOMAIN jobs
RetryOf(t) == \E j \in NewJobs : j[1] = "trial" /\ j[2] = t

C19_RetryResets ==
  [][\A t \in TrialIds :
       (RetryOf(t) /\ trials[t].status \in Terminal)
       => /\ trials'[t].status = "queued"
          /\ trials'[t].reward = None /\ ~trials'[t].error_message
          /\ ~trials'[t].trial_s3_key /\ trials'[t].harbor_stage = None
          /\ trials'[t].idempotency_key = None /\ trials'[t].attempts = 0
          /\ Cardinality(NewJobs) = 1
          /\ \A j \in NewJobs :
               jobs'[j].status = "queued" /\ jobs'[j].entrypoint = TrialQueueKey
          /\ \A j \in DOMAIN jobs : jobs'[j] = jobs[j]
          /\ IF task.status \in {"completed", "failed"}
               THEN task' = [task EXCEPT !.status = "running", !.finished_at = FALSE]
               ELSE task' = task]_pvars

\* A trial of a completed task was retried: it is queued again with a second job, and
\* the task is running again.
C19_Witness ==
  \E t \in TrialIds :
    /\ reverts = 1 /\ task.status = "running"
    /\ trials[t].status = "queued" /\ trials[t].idempotency_key = None
    /\ <<"trial", t, 2>> \in JobIds /\ jobs[<<"trial", t, 2>>].status = "queued"
    /\ uploads[t]

\* C20 (as stated): the explicit retry acts only on a trial with status success or
\* failed, and never while a worker is executing the trial.
Executing(t) == \E j \in TrialJobs : jobs[j].ref = t /\ jobs[j].status = "picked" /\ ~jobs[j].dead

C20_RetryOnlyTerminal ==
  [][\A t \in TrialIds :
       RetryOf(t) => (trials[t].status \in Terminal /\ ~Executing(t))]_pvars

\* C20 (amended): the explicit retry acts only on a trial that is terminal (success or
\* failed) or stuck (running or retrying, with an error message or with harbor stage
\* completed); on a trial that is pending or queued, or running or retrying and not
\* stuck, it changes nothing.
C20_RetryOnlyTerminalOrStuck ==
  [][\A t \in TrialIds :
       RetryOf(t)
       => \/ trials[t].status \in {"success", "failed"}
          \/ /\ trials[t].status \in {"running", "retrying"}
             /\ (trials[t].error_message \/ trials[t].harbor_stage = "completed")]_pvars

\* A retry was accepted for a trial whose worker had not finished: the worker is still
\* before its final session while the trial is queued again with a second job.
C20_Witness ==
  \E t \in TrialIds :
    /\ <<"trial", t, 2>> \in JobIds
    /\ Holds(<<"trial", t, 1>>, "returned")
    /\ trials[t].status = "queued" /\ trials[t].attempts = 0

\* C21: every write of a task's pipeline status is made by a transaction that holds
\* the task's row lock taken with SELECT ... FOR UPDATE, and no other writer's write
\* falls between a writer's read of the task row and its own write.
C21_StatusWritesUnderLock ==
  [][\A w \in TaskWriters :
       (txn[w].pc = "read" /\ txn'[w].pc = "done")
         => /\ task'.status # task.status => tasklock = w
            /\ task.status = txn[w].seen.status]_vars

\* C22: when verdict synthesis raises, also for want of a successful classification,
\* the verdict handler stores the error, sets verdict_status failed and the task
\* completed with finished_at, and does not raise: its queue row succeeds and the
\* task does not stay in verdict_pending.
C22_SynthesisFailureCompletes ==
  [][\A j \in DOMAIN jobs :
       /\ (Holds(j, "v_synth") /\ jobs[j].out = "empty" /\ jobs'[j].pc = "v_finish")
            => jobs'[j].out = "error"
       /\ (Holds(j, "v_finish") /\ jobs[j].out = "error" /\ j \in DOMAIN jobs'
              /\ jobs'[j].status # "picked")
            => /\ jobs'[j].status = "success" /\ ~jobs'[j].raised
               /\ task.exists
                    => /\ task'.verdict_status = "failed" /\ task'.verdict_error
                       /\ task'.status = "completed" /\ task'.finished_at]_pvars

\* A verdict job has succeeded on a task whose synthesis failed.
C22_Witness ==
  /\ task.exists /\ task.verdict_status = "failed" /\ task.verdict_error
  /\ task.status = "completed" /\ task.finished_at
  /\ \E j \in DOMAIN jobs : jobs[j].job_type = "verdict" /\ jobs[j].status = "success"

\* C23: a job whose payload lacks trial_id (trial or analysis job) or task_id (verdict
\* job), or whose job_type is not one of trial, analysis and verdict, makes the
\* handler raise, so that its queue row is not marked success, on the one-shot worker
\* and on the long-running queue manager alike.  A payload without the job_type key
\* that carries a trial_id is an older trial payload and is not counted as invalid.
InvalidPayload(p) ==
  \/ p.job_type \in {"trial", "analysis"} /\ ~p.trial_id
  \/ p.job_type = "verdict" /\ ~p.task_id
  \/ p.job_type = "other"
  \/ p.job_type = None /\ ~p.trial_id

C23_InvalidPayloadRaises ==
  \A j \in DOMAIN dq :
    (InvalidPayload(dq[j].payload) /\ dq[j].status # "queued")
      => dq[j].status = "failed" /\ dq[j].handler = None

\* The worker of trial job j is killed after an END hook that carried one of the
\* results evs and before the final session; the trial row is as that hook left it:
\* j is the only job of its trial, that is, no retry of the trial was accepted.
KilledAfterEnd(j, evs) ==
  /\ jobs[j].job_type = "trial" /\ jobs[j].status = "picked"
  /\ jobs[j].pc = "returned" /\ jobs[j].out \in evs
  /\ ~jobs[j].dead /\ j \in DOMAIN jobs' /\ jobs'[j].dead
  /\ trials[jobs[j].ref].exists /\ trials[jobs[j].ref].harbor_stage = "completed"
  /\ \A k \in DOMAIN jobs : (k[1] = "trial" /\ k[2] = jobs[j].ref) => k = j

C25_RewardOnlyOnTerminal ==
  \A t \in TrialIds :
    (trials[t].exists /\ trials[t].reward # None) => trials[t].status \in Terminal

\* C26: when the run of a trial is cancelled, whether the cancellation reaches the
\* handler as CancelledError or the runner reports it as its outcome, the final
\* session leaves the trial failed with an error message and does not take the retry
\* branch.
C26_CancelledRunFailsWithoutRetry ==
  [][\A j \in TrialJobs :
       (FinalSessionEnds(j) /\ jobs[j].out \in {"cancel_err", "cancel_exc"})
         => /\ trials'[jobs[j].ref].status = "failed"
            /\ trials'[jobs[j].ref].error_message
            /\ ~jobs'[j].raised]_pvars

\* The capacity of key k as the dispatcher's counts give it, the number of entries of
\* key k in a plan, and a dispatcher cycle.
Capacity(k) ==
  Max2(Min2(queue_counts[k].queued, concurrency_limits[k] - queue_counts[k].picked), 0)

TotalCapacity == SumTo([k \in PlanKeys |-> Capacity(k)], NumPlanKeys)
Entries(plan, k) == Cardinality({i \in 1..Len(plan) : plan[i] = k})
Cycle == polled' # polled

\* C27: over repeated dispatcher cycles with a positive spawn cap, a queue key does
\* not stay forever with queued jobs and spare capacity without a worker being
\* spawned for it, also while other keys stay queued and the cap is smaller than the
\* number of keys with capacity.
C27_NoStarvation ==
  \A k \in PlanKeys :
    max_workers > 0 => []<>(Capacity(k) = 0 \/ Entries(spawn_plan, k) > 0)

\* C27, amended: in every cycle whose spawn cap is at least the number of keys with
\* capacity, every key with capacity gets a worker, however deep the other keys.
C27_ServedWithinCap ==
  [][(Cycle /\ Cardinality({k \in PlanKeys : Capacity(k) > 0}) <= max_workers)
       => \A k \in PlanKeys : Capacity(k) > 0 => Entries(spawn_plan', k) > 0]_nvars

\* A cycle with cap 2 has spawned a worker for each of two keys, the first of which
\* had two queued jobs and room for both.
C27_Witness ==
  /\ max_workers = 2 /\ spawn_plan = <<1, 2>>
  /\ queue_counts[1].queued = 2 /\ queue_counts[1].picked = 0
  /\ concurrency_limits[1] = 2

\* C28: the plan of a cycle has min(total capacity, max_workers) entries, where the
\* capacity of a key is max(min(queued, limit - picked), 0); no key has more entries
\* than its capacity; two keys below their capacity differ by at most one entry; and
\* the plan is empty when the total capacity or max_workers is not positive.
C28_PlanShape ==
  [][Cycle =>
       /\ Len(spawn_plan') = Min2(TotalCapacity, max_workers)
       /\ \A k \in PlanKeys : Entries(spawn_plan', k) <= Capacity(k)
       /\ \A a, b \in PlanKeys :
            (Entries(spawn_plan', a) < Capacity(a) /\ Entries(spawn_plan', b) < Capacity(b))
              => Entries(spawn_plan', a) - Entries(spawn_plan', b) \in {-1, 0, 1}
       /\ (TotalCapacity <= 0 \/ max_workers <= 0) => spawn_plan' = <<>>]_nvars

\* A cycle with cap 1 has planned one worker although two keys had capacity, one of
\* them with running jobs counted against its limit.
C28_Witness ==
  /\ max_workers = 1 /\ spawn_plan = <<1>>
  /\ Capacity(1) > 0 /\ Capacity(2) > 0
  /\ \E k \in PlanKeys : queue_counts[k].picked > 0

\* C29: cancelling the jobs of a task and its trials marks only rows in status queued
\* as cancelled and leaves every other row, the picked ones among them, as it is, so
\* that their handlers go on; when the lookup fails nothing changes.
CancelStep == delPhase = "none" /\ delPhase' \in {"cancelled", "lookup_failed"}

TrialSettled(t) ==
  /\ trials[t].exists /\ trials[t].status \in Terminal
  /\ \A j \in DOMAIN jobs : (j[1] = "trial" /\ j[2] = t) => jobs[j].status = "success"

C30_OneAnalysisJobPerTerminalTrial ==
  (task.exists /\ task.run_analysis /\ delPhase = "none")
    => \A t \in TrialIds :
         TrialSettled(t)
           => /\ Cardinality(AnalysisJobsOf(jobs, t)) = 1
              /\ \A a \in AnalysisJobsOf(jobs, t) :
                   jobs[a].entrypoint = get_analysis_queue_key

\* C31: a trial's idempotency key is set by the mark-running step of its first
\* attempt, no step replaces a key that is set by another key, and the only step
\* that clears it is the explicit retry (which requeues the trial with attempts 0
\* and a new trial job).
ExplicitRetryStep(t) ==
  /\ trials'[t].status = "queued" /\ trials'[t].attempts = 0
  /\ \E k \in DOMAIN jobs' \ DOMAIN jobs : k[1] = "trial" /\ k[2] = t

C31_KeyStable ==
  [][\A t \in TrialIds :
       (trials[t].exists /\ trials'[t].exists
          /\ trials'[t].idempotency_key # trials[t].idempotency_key)
       => IF trials[t].idempotency_key = None
            THEN /\ trials[t].attempts = 0 /\ trials'[t].attempts = 1
                 /\ trials'[t].status = "running"
            ELSE trials'[t].idempotency_key = None /\ ExplicitRetryStep(t)]_pvars

\* The second attempt of a trial is marked running and the trial carries the key its
\* first attempt drew.
C31_Witness ==
  \E j \in DOMAIN jobs :
    /\ jobs[j].job_type = "trial" /\ jobs[j].status = "picked" /\ jobs[j].pc = "run"
    /\ trials[jobs[j].ref].exists /\ trials[jobs[j].ref].attempts = 2
    /\ trials[jobs[j].ref].idempotency_key = "uuid-1-1"

\* C32: when materialization or the classifier raises in the analysis handler, the
\* second session stores analysis_status failed with the error, the job ends in
\* success (the handler does not raise), and maybe_start_verdict_stage runs in that
\* session: if the task is analyzing and no other analysis is pending, the task
\* moves to verdict_pending and the verdict job is enqueued.
StoresAnalysis(j) ==
  /\ jobs[j].job_type = "analysis" /\ Holds(j, "a_finish")
  /\ jobs'[j].pc # "a_finish"
  /\ trials[jobs[j].ref].exists
  /\ faults' = faults     \* the session itself did not fail (SessionFails)

C32_FailedAnalysisIsFinished ==
  [][\A j \in DOMAIN jobs :
       (StoresAnalysis(j) /\ trials'[jobs[j].ref].analysis_status # "success")
       => LET t == jobs[j].ref IN
            /\ trials'[t].analysis_status = "failed" /\ trials'[t].analysis_error
            /\ jobs'[j].status = "success" /\ ~jobs'[j].raised
            /\ (task.exists /\ task.status = "analyzing" /\ AnalysisPendingCount(trials') = 0)
                 => /\ task'.status = "verdict_pending" /\ task'.verdict_status = "queued"
                    /\ verdictEnq' = verdictEnq + 1]_pvars

\* A failed analysis was the last one to finish and the verdict job was enqueued.
C32_Witness ==
  /\ task.exists /\ task.status = "verdict_pending" /\ verdictEnq = 1
  /\ \E t \in TrialIds :
       trials[t].exists /\ trials[t].analysis_status = "failed" /\ trials[t].analysis_error
  /\ \E t \in TrialIds : trials[t].exists /\ trials[t].analysis_status = "success"

\* C33: a one-shot worker claims and handles a job only while it holds the lease of
\* its slot; a worker that found no slot, or whose key has limit <= 0, exits without
\* having claimed a job; and a worker that acquired a slot and exits, after its
\* handler returned, raised or was cancelled, or after it found no job, has released
\* its own lease.
\* The worker took a slot (its deadline is set together with its slot).
HasSlot(w) == wk[w].deadline # 0

HoldsLease(w) ==
  /\ HasSlot(w)
  /\ queue_slots[wk[w].slot].locked_by = w
  /\ queue_slots[wk[w].slot].locked_until > now

C33_ClaimUnderLease ==
  [][\A w \in Workers :
       /\ wk'[w].pc \in {"claim", "claiming", "handling"} => HoldsLease(w)'
       /\ (~HasSlot(w)' \/ limit <= 0) => wk'[w].job = 0
       /\ (wk[w].pc # "exit" /\ wk'[w].pc = "exit" /\ HasSlot(w)')
            => /\ HoldsLease(w)
               /\ queue_slots'[wk'[w].slot].locked_by # w]_vars

\* One worker released its slot after its handler raised, another after it was
\* cancelled, and a third exited without a slot and without a job.
C33_Witness ==
  \E w1, w2, w3 \in Workers :
    /\ wk[w1].pc = "exit" /\ wk[w1].job # 0 /\ pgq[wk[w1].job].status = "failed"
    /\ wk[w2].pc = "exit" /\ wk[w2].job # 0 /\ pgq[wk[w2].job].status = "picked"
    /\ wk[w1].job # wk[w2].job
    /\ wk[w3].pc = "exit" /\ ~HasSlot(w3) /\ wk[w3].job = 0
    /\ \A s \in SlotIds : queue_slots[s].locked_by = 0

\* C34: a state update and its downstream enqueue are one commit: a step sets a
\* trial's analysis_status to queued exactly when it adds the trial's analysis job, a
\* step moves the task to verdict_pending with verdict_status queued exactly when it
\* adds the verdict job, and a step in which a handler's session is rolled back (the
\* picked row fails) changes no task or trial field and adds no job.
VerdictQueued(tk) == tk.exists /\ tk.status = "verdict_pending" /\ tk.verdict_status = "queued"

C34_EnqueueAtomic ==
  [][/\ \A t \in TrialIds :
          (trials[t].exists /\ trials'[t].exists)
            => ((trials[t].analysis_status # "queued" /\ trials'[t].analysis_status = "queued")
                  <=> \E a \in NewJobs :
                        a[1] = "analysis" /\ a[2] = t /\ jobs'[a].status = "queued")
     /\ (task.exists /\ task'.exists)
          => ((~VerdictQueued(task) /\ VerdictQueued(task'))
                <=> \E v \in NewJobs : v[1] = "verdict" /\ jobs'[v].status = "queued")
     /\ \A j \in DOMAIN jobs :
          (jobs[j].status = "picked" /\ j \in DOMAIN jobs' /\ jobs'[j].status = "failed")
            => UNCHANGED <<task, trials>> /\ NewJobs = {}]_pvars

\* The second session of the analysis handler of one trial was rolled back (its row
\* failed and the trial's analysis is still running), while another trial has
\* analysis_status queued together with its queued analysis job.
C34_Witness ==
  \E a1, a2 \in DOMAIN jobs :
    /\ a1[1] = "analysis" /\ a2[1] = "analysis" /\ a1[2] # a2[2]
    /\ jobs[a1].status = "failed"
    /\ trials[a1[2]].exists /\ trials[a1[2]].analysis_status = "running"
    /\ jobs[a2].status = "queued"
    /\ trials[a2[2]].exists /\ trials[a2[2]].analysis_status = "queued"
    /\ task.exists /\ task.status = "analyzing"

\* What holds of C35 when a trial without analysis_status counts as unfinished: a
\* task with run_analysis is never in analyzing with the analyses of all its trials
\* finished (success or failed).  The final session that finds every trial terminal
\* and every analysis finished moves the task to verdict_pending and enqueues the
\* verdict job in the same commit; the analysis that finishes last while the task is
\* analyzing does the same.
AllAnalysesFinished(trs) == AnalysisUnfinishedCount(trs) = 0
AnalyzingWithWork(tk, trs) ==
  (tk.exists /\ tk.run_analysis /\ tk.status = "analyzing") => ~AllAnalysesFinished(trs)
VerdictStarted ==
  /\ VerdictQueued(task')
  /\ \E v \in NewJobs : v[1] = "verdict" /\ jobs'[v].status = "queued"

C35_NoAnalyzingWithAllFinished ==
  [][/\ AnalyzingWithWork(task, trials) /\ AnalyzingWithWork(task', trials')
     /\ \A j \in TrialJobs :
          (/\ FinalSessionEnds(j) /\ jobs'[j].status = "success"
           /\ task.exists /\ task.run_analysis /\ task.status \in {"pending", "running"}
           /\ PendingTrialCount(trials') = 0 /\ AllAnalysesFinished(trials'))
            => VerdictStarted
     /\ \A j \in DOMAIN jobs :
          (/\ StoresAnalysis(j)
           /\ task.exists /\ task.status = "analyzing"
           /\ AllAnalysesFinished(trials'))
            => VerdictStarted]_pvars

\* Every analysis had finished before the last trial ended again after a retry: the
\* task is in verdict_pending with its verdict job queued, and the retried trial's
\* second job ended in success.
C35_Witness ==
  /\ VerdictQueued(task) /\ task.run_analysis /\ starts = 1
  /\ \E v \in DOMAIN jobs : v[1] = "verdict" /\ jobs[v].status = "queued"
  /\ \A t \in TrialIds : trials[t].exists /\ trials[t].analysis_status \in Terminal
  /\ \E j \in DOMAIN jobs : j[1] = "trial" /\ j[3] = 2 /\ jobs[j].status = "success"
  /\ \A a \in DOMAIN jobs : a[1] = "analysis" => jobs[a].status = "success"

\* C35: a task with run_analysis does not stay in analyzing once all analyses of its
\* trials have finished: while the task is analyzing some job is still queued,
\* picked or awaiting redelivery, so that a handler is left to move the task on.
Unsettled(j) == jobs[j].status \in {"queued", "picked", "failed"}

C35_AnalyzingHasWorkLeft ==
  (task.exists /\ task.run_analysis /\ task.status = "analyzing" /\ delPhase = "none")
    => \E j \in DOMAIN jobs : Unsettled(j)

\* C36: the handler of a re-delivered analysis job whose trial has analysis_status
\* success or failed, and of a re-delivered verdict job whose task has verdict_status
\* success or failed, returns from its first session: the row ends in success, no
\* field of the task or of a trial changes, no artifact is stored and no job is
\* enqueued.
FirstSessionRuns(j) ==
  jobs[j].status = "queued" /\ jobs'[j].status \notin {"queued", "cancelled"}
WorkDone(j) ==
  \/ /\ jobs[j].job_type = "analysis"
     /\ trials[jobs[j].ref].exists /\ trials[jobs[j].ref].analysis_status \in Terminal
  \/ /\ jobs[j].job_type = "verdict"
     /\ task.exists /\ task.verdict_status \in Terminal

C36_RedeliveryIsNoop ==
  [][\A j \in DOMAIN jobs :
       (FirstSessionRuns(j) /\ WorkDone(j))
       => /\ jobs'[j].status = "success"
          /\ UNCHANGED <<task, trials, uploads, verdictEnq, starts>>
          /\ DOMAIN jobs' = DOMAIN jobs
          /\ \A k \in DOMAIN jobs : k # j => jobs'[k] = jobs[k]]_pvars

\* Both skips happened: the analysis job of a trial whose analysis had failed and the
\* verdict job of the completed task were handed out again and returned at once.
C36_Witness ==
  /\ task.exists /\ task.status = "completed" /\ task.verdict_status \in Terminal
  /\ \E a \in DOMAIN jobs :
       /\ a[1] = "analysis" /\ jobs[a].status = "success" /\ jobs[a].out = "skipped"
       /\ trials[a[2]].exists /\ trials[a[2]].analysis_status = "failed"
  /\ \E v \in DOMAIN jobs :
       v[1] = "verdict" /\ jobs[v].status = "success" /\ jobs[v].out = "skipped"

\* C37: when the queue keeps delivering and no worker dies, nothing is deleted, no
\* trial is retried explicitly and no session fails at the database, every task
\* eventually reaches status completed, also when its trials end with an error or
\* are cancelled and the handler takes the automatic retry branch.
Undisturbed ==
  /\ delPhase = "none"
  /\ \A j \in DOMAIN jobs :
       /\ ~jobs[j].dead
       /\ j[1] = "trial" => j[3] = 1
       /\ jobs[j].status = "failed" => jobs[j].raised

C37_TaskCompletes == <>(~Undisturbed \/ (task.exists /\ task.status = "completed"))

\* C38: a task in status analyzing, verdict_pending or completed has no trial in
\* status pending, queued, running or retrying, also after an explicit retry of one of
\* its trials.
PastTrials == {"analyzing", "verdict_pending", "completed"}

C38_NoOpenTrialPastRunning ==
  (task.exists /\ task.status \in PastTrials /\ delPhase = "none")
    => PendingTrialCount(trials) = 0

\* C39: no slot is held by two running workers at the same time, and a slot is handed
\* to a worker only when its row carries no lease (it was released or swept, or never
\* leased) or its locked_until has passed, and then the previous holder is no longer
\* running.
SlotOf(w) == IF HasSlot(w) THEN wk[w].slot ELSE -1

SlotTakers(s) == {w \in Workers : Live(w) /\ SlotOf(w) = s}

HandedOver(w, s) == wk[w].pc = "spawned" /\ wk'[w].pc = "acquiring" /\ wk'[w].slot = s

C39_SlotExclusive ==
  /\ [](\A s \in SlotIds : Cardinality(SlotTakers(s)) <= 1)
  /\ [][\A w \in Workers, s \in SlotIds :
          HandedOver(w, s)
          => /\ SlotTakers(s) = {}
             /\ \/ queue_slots[s].locked_by = 0
                \/ /\ queue_slots[s].locked_until <= now
                   /\ ~Live(queue_slots[s].locked_by)]_vars

\* A worker runs under a lease of a slot whose previous holder died without releasing
\* it: the lease was re-issued after it had expired.
C39_Witness ==
  \E w, v \in Workers :
    /\ w # v /\ wk[v].pc = "dead" /\ wk[w].pc = "handling"
    /\ SlotOf(v) = SlotOf(w)
    /\ queue_slots[wk[w].slot].locked_by = w

\* C40: over the whole life of a trial at most one analysis job is enqueued for it:
\* the explicit retry leaves analysis_status as it is, and a final session that finds
\* analysis_status set enqueues no analysis job.
C40_AtMostOneAnalysisJob ==
  /\ [](\A t \in TrialIds : Cardinality(AnalysisJobsOf(jobs, t)) <= 1)
  /\ [][\A t \in TrialIds :
          /\ ExplicitRetryStep(t)
               => /\ trials'[t].analysis_status = trials[t].analysis_status
                  /\ AnalysisJobsOf(jobs', t) = AnalysisJobsOf(jobs, t)
          /\ (trials[t].exists /\ trials[t].analysis_status # None)
               => AnalysisJobsOf(jobs', t) = AnalysisJobsOf(jobs, t)]_pvars

\* A trial whose analysis had finished was retried explicitly and ran to a terminal
\* status again: its second trial job is settled, and it still has the one analysis
\* job and the analysis_status of its first run.
C40_Witness ==
  \E t \in TrialIds :
    /\ task.exists /\ task.run_analysis /\ delPhase = "none"
    /\ <<"trial", t, 2>> \in DOMAIN jobs /\ jobs[<<"trial", t, 2>>].status = "success"
    /\ trials[t].status \in Terminal /\ trials[t].attempts = 1
    /\ trials[t].analysis_status \in Terminal
    /\ Cardinality(AnalysisJobsOf(jobs, t)) = 1

====
